---- MODULE Spec2Model ----
(***************************************************************************)
(* A model of implicit-clone's IArray (src/src/array.rs), IMap             *)
(* (src/src/map.rs) and IString (src/src/string.rs): the storage variants, *)
(* the reference-counted heap behind the Rc variant, clone / drop / iter,  *)
(* the mutable-access paths get_mut and make_mut, the reads, the derived   *)
(* equality, the from_iter construction heuristic, and the constructors,   *)
(* comparisons and hashing of strings.                                     *)
(*                                                                         *)
(* The specifications share the variables:                                 *)
(*   Spec      the single-threaded flavor (unsync.rs, Rc = std::rc::Rc):   *)
(*             every operation is one step;                                *)
(*   IterSpec  from_iter applied to iterators drawn from a bounded set;    *)
(*   SyncSpec  the atomic flavor (sync.rs, Rc = std::sync::Arc): one       *)
(*             thread per handle, make_mut split at its reference-count    *)
(*             operations, a third thread cloning and dropping meanwhile;  *)
(*   ReadSpec  the read-only operations on one array of any variant:       *)
(*             iter / next / next_back, get, == against raw values;        *)
(*   EditSpec  the structural edits of the sequence container, which       *)
(*             array.rs does not have, after the specification's text;     *)
(*   MapSpec   IMap (src/src/map.rs): construction, lookups, ==.           *)
(*   SnapSpec  iterators over an array that is written and replaced;       *)
(*   StrSpec   IString: construction, clone / drop, as_cow;                *)
(*   CmpSpec   IString: the comparisons and hashing, on two strings of any *)
(*             variant;                                                    *)
(*   NameSpec  lookups by name in maps keyed by IString or &'static str.   *)
(*                                                                         *)
(* Scope. A strong Rc kept outside any IArray behaves, for the counts,     *)
(* like one more IArray::Rc value and is modelled as one. Weak references  *)
(* arrive with From<Rc<[T]>> and can only be dropped (no upgrade). Element *)
(* clones are value copies. A slot holds at most one view at a time, as    *)
(* the borrow checker enforces for a value.                                *)
(***************************************************************************)
EXTENDS Integers, Sequences, FiniteSets, TLC

VARIABLES
    arr,      \* arr[h]: the IArray value held in handle slot h (or NoArr)
    ghost,    \* ghost[h]: history of handle h: born, its content when it was made or last
              \* cloned; parent, the slot it was cloned from (-1 once that is dropped);
              \* wrote, whether it was written through its own view since
    iters,    \* iters[i]: the Iter value held in iterator slot i (or NoIter)
    heap,     \* heap[b]: the Rc<[T]> allocation b: contents, strong and weak counts
    statics,  \* statics[s]: the 'static slice s
    view,     \* view[h]: the &mut [T] borrowed from handle h, if any
    last,     \* the operation that ran last and what it returned
    src,      \* IterSpec: the iterator handed to from_iter
    pc,       \* SyncSpec: pc[t], where thread t stands inside its operation
    tmp,      \* SyncSpec: tmp[t], the buffer thread t has just collected
    flavor,   \* "unsync" (Rc is std::rc::Rc) or "sync" (Rc is std::sync::Arc)
    ret,      \* the Option the last read returned: None, or Some(x)
    walk,     \* walk[i]: history of iterator i: orig, the slice of its array when
              \* iter() made it; fronts / backs, the next() / next_back() calls
              \* that have returned Some so far
    maps,     \* maps[m]: the IMap value held in map slot m (or NoMap)
    strs,     \* strs[s]: the IString value held in string slot s (or NoStr)
    cow       \* cow[s]: the Cow borrowed from the string in slot s, None if none

vars == <<arr, ghost, iters, heap, statics, view, last, src, pc, tmp, flavor, ret, walk, maps, strs, cow>>

\* ------------------------------------------------------------------ bounds

\* Handle slots (IArray values alive at once; in SyncSpec, threads).
MaxHandles == 2
\* Threads of the atomic flavor, each with a handle slot of its own.
MaxThreads == 3
\* Longest array, and greatest element value, the threads of the atomic
\* flavor are given.
SyncLen == 1
SyncElem == 1
\* Iterator slots (Iter values alive at once).
MaxIters == 1
\* Rc allocations alive at once in the single-threaded flavor.
MaxBufs == 2
\* Arc allocations alive at once in the atomic flavor (two threads inside
\* make_mut on one shared buffer need three).
MaxArcBufs == 3
\* Element values are 1..MaxElem.
MaxElem == 2
\* Longest slice built by From<Vec<T>> / From<Rc<[T]>>.
MaxLen == 2
\* Number of 'static slices; slice s has s - 1 elements.
NStatic == 3
\* Most Weak references handed in with an outside Rc.
MaxWeak == 1
\* Most elements an iterator given to from_iter really yields.
MaxYield == 3
\* Longest array an iterator walks, and longest raw slice an array is
\* compared with, in ReadSpec.
MaxWalk == 4
\* Longest run of elements one insert_many adds.
MaxEdit == 2
\* String slots (IString values alive at once).
MaxStrs == 2
\* Characters are 1..MaxChar; texts have at most MaxText of them.
MaxChar == 2
MaxText == 2
\* Number of values the model's hash function takes.
HashBuckets == 3
MaxOuter == 1
\* Map slots (IMap values alive at once).
MaxMaps == 2
\* Keys are 1..MaxKey, values 1..MaxVal.
MaxKey == 2
MaxVal == 2
\* Longest pair list a map is built from.
MaxPairs == 2

H == 1..MaxHandles
T == 1..MaxThreads
I == 1..MaxIters
B == 1..MaxArcBufs
Elem == 1..MaxElem
M == 1..MaxMaps
S == 1..MaxStrs
Char == 1..MaxChar
Text == UNION {[1..k -> Char] : k \in 0..MaxText}
Key == 1..MaxKey
Val == 1..MaxVal

SeqsUpTo(n) == UNION {[1..k -> Elem] : k \in 0..n}

\* ------------------------------------------------------------ the values

\* The three variants of the enum, and the empty slot.
StaticArr(s) == [variant |-> "Static", ref |-> s, inl |-> <<>>]
RcArr(b)     == [variant |-> "Rc", ref |-> b, inl |-> <<>>]
SingleArr(x) == [variant |-> "Single", ref |-> 0, inl |-> <<x>>]
NoArr        == [variant |-> "None", ref |-> 0, inl |-> <<>>]

\* IArray::EMPTY: Static slice 1 is &[].
EMPTY == StaticArr(1)

StaticTable == [s \in 1..NStatic |-> [k \in 1..(s - 1) |-> ((k - 1) % MaxElem) + 1]]

NoIter == [array |-> NoArr, left |-> 0, right |-> 0]
NoView == [kind |-> "None", ref |-> 0]
NoGhost == [born |-> <<>>, parent |-> 0, wrote |-> FALSE]
FreeBuf == [state |-> "free", data |-> <<>>, strong |-> 0, weak |-> 0]
NoLast == [op |-> "none", h |-> 0, g |-> 0, ok |-> FALSE]
\* Option<T>: None, and Some(x).
None == <<>>
Some(x) == <<x>>
\* The Option for an element the model writes as 0 when it is None.
Opt(x) == IF x = 0 THEN None ELSE Some(x)
NoWalk == [orig |-> <<>>, fronts |-> 0, backs |-> 0]

\* The two variants of IString, and the empty slot. Static carries the
\* 'static str; Rc points at the Rc<str> allocation in the heap.
StaticStr(t) == [variant |-> "Static", text |-> t, ref |-> 0]
RcStr(b)     == [variant |-> "Rc", text |-> <<>>, ref |-> b]
NoStr        == [variant |-> "None", text |-> <<>>, ref |-> 0]

\* The two variants of IMap, and the empty slot. Static carries the pair
\* slice; Rc carries the entries of its IndexMap, in the map's order.
StaticMap(p) == [variant |-> "Static", pairs |-> p]
RcMap(p)     == [variant |-> "Rc", pairs |-> p]
NoMap        == [variant |-> "None", pairs |-> <<>>]
\* An iterator: yields, all it produces; rest, what it has not produced yet;
\* (lo, hi), its size_hint, hi = -1 for None; pulls, the next() calls from_iter
\* made itself; drained, whether it was handed to Rc::from_iter; out, the slot
\* that received the collected array.
NewSrc(q, l, u) ==
    [rest |-> q, yields |-> q, lo |-> l, hi |-> u, pulls |-> 0, drained |-> FALSE, out |-> 0]
NoSrc == NewSrc(<<>>, 0, -1)

Op(name, h, g, ok) == [op |-> name, h |-> h, g |-> g, ok |-> ok]

\* as_slice, over an explicit heap and static memory.
SliceIn(a, hp, st) ==
    CASE a.variant = "Static" -> st[a.ref]
      [] a.variant = "Rc"     -> hp[a.ref].data
      [] a.variant = "Single" -> a.inl
      [] OTHER                -> <<>>

as_slice(a) == SliceIn(a, heap, statics)

\* len: Single is always 1.
len(a) ==
    CASE a.variant = "Static" -> Len(statics[a.ref])
      [] a.variant = "Rc"     -> Len(heap[a.ref].data)
      [] a.variant = "Single" -> 1
      [] OTHER                -> 0

\* Faulty variant of get: a Single answers every index with its element.
get_single_any_index(a, index) ==
    CASE a.variant = "Static" ->
            IF index < Len(statics[a.ref]) THEN statics[a.ref][index + 1] ELSE 0
      [] a.variant = "Rc" ->
            IF index < Len(heap[a.ref].data) THEN heap[a.ref].data[index + 1] ELSE 0
      [] a.variant = "Single" -> a.inl[1]
      [] OTHER -> 0

\* get: a clone of the element at a 0-based index; 0 stands for None.
get(a, index) ==
    CASE a.variant = "Static" ->
            IF index < Len(statics[a.ref]) THEN statics[a.ref][index + 1] ELSE 0
      [] a.variant = "Rc" ->
            IF index < Len(heap[a.ref].data) THEN heap[a.ref].data[index + 1] ELSE 0
      [] a.variant = "Single" -> IF index = 0 THEN a.inl[1] ELSE 0
      [] OTHER -> 0

\* #[derive(PartialEq)] on the enum: equal discriminants, then equal payloads
\* (slices, Rc<[T]> and [T; 1] all compare by content).
DerivedEq(a, b, hp, st) ==
    /\ a.variant = b.variant
    /\ SliceIn(a, hp, st) = SliceIn(b, hp, st)

\* ------------------------------------------------------ the Rc primitive

\* The allocator of the model: buffers 1..Cap, the lowest free one first.
Cap == IF flavor = "sync" THEN MaxArcBufs ELSE MaxBufs
HasFree(hp) == \E b \in 1..Cap : hp[b].state = "free"
NewBuf(hp) ==
    CHOOSE b \in 1..Cap : hp[b].state = "free" /\ \A c \in 1..Cap : c < b => hp[c].state # "free"

\* Rc::from(vec) / collect::<Rc<[T]>>(): a new allocation, strong = 1, with w
\* Weak references already taken by whoever made it.
AllocIn(hp, b, data, w) ==
    [hp EXCEPT ![b] = [state |-> "live", data |-> data, strong |-> 1, weak |-> w]]

\* Faulty variant of IncStrong: a clone that does not count itself.
IncStrongNoCount(hp, b) == hp
\* Rc::clone: strong += 1.
IncStrong(hp, b) == [hp EXCEPT ![b].strong = @ + 1]

\* Drop of an Rc: strong -= 1; at zero the contents are dropped, and the
\* allocation goes once no Weak is left.
DecStrong(hp, b) ==
    IF hp[b].strong = 1
    THEN IF hp[b].weak = 0
         THEN [hp EXCEPT ![b] = FreeBuf]
         ELSE [hp EXCEPT ![b] = [state |-> "dropped", data |-> <<>>, strong |-> 0, weak |-> @.weak]]
    ELSE [hp EXCEPT ![b].strong = @ - 1]

\* Drop of a Weak.
DecWeak(hp, b) ==
    IF hp[b].weak = 1 /\ hp[b].strong = 0
    THEN [hp EXCEPT ![b] = FreeBuf]
    ELSE [hp EXCEPT ![b].weak = @ - 1]

\* Faulty variants of IsUnique: one that overlooks Weak references, one that
\* never looks at the counts.
IsUniqueStrongOnly(hp, b) == hp[b].strong = 1
IsUniqueAlways(hp, b) == TRUE
\* Rc::get_mut(rc).is_some(): no other strong and no weak reference.
IsUnique(hp, b) == hp[b].strong = 1 /\ hp[b].weak = 0

\* Dropping an IArray value drops its Rc, if it holds one.
DropArr(hp, a) == IF a.variant = "Rc" THEN DecStrong(hp, a.ref) ELSE hp

\* Clone for IArray: the new value, and the heap after the clone.
CloneHeap(hp, a) == IF a.variant = "Rc" THEN IncStrong(hp, a.ref) ELSE hp

\* --------------------------------------------- get_mut and make_mut

RcView(b) == [kind |-> "Rc", ref |-> b]
SingleView == [kind |-> "Single", ref |-> 0]
StaticView(s) == [kind |-> "Static", ref |-> s]

\* Faulty variant of get_mut: the Rc arm hands out the buffer unconditionally.
get_mut_ignores_count(a, hp) ==
    CASE a.variant = "Rc"     -> RcView(a.ref)
      [] a.variant = "Static" -> NoView
      [] a.variant = "Single" -> SingleView
\* Faulty variant of get_mut: Single is refused like Static.
get_mut_refuses_single(a, hp) ==
    CASE a.variant = "Rc"     -> IF IsUnique(hp, a.ref) THEN RcView(a.ref) ELSE NoView
      [] a.variant = "Static" -> NoView
      [] a.variant = "Single" -> NoView
\* IArray::get_mut: the view it returns (NoView for None).
get_mut(a, hp) ==
    CASE a.variant = "Rc"     -> IF IsUnique(hp, a.ref) THEN RcView(a.ref) ELSE NoView
      [] a.variant = "Static" -> NoView
      [] a.variant = "Single" -> SingleView

\* Faulty variant of Collect: the new buffer does not receive the elements.
CollectNoCopy(hp, nb, data) == AllocIn(hp, nb, <<>>, 0)
\* collect::<Rc<[T]>>() of a slice's clones: the heap with the copy in buffer nb.
Collect(hp, nb, data) == AllocIn(hp, nb, data, 0)

\* Rc::get_mut(rc).unwrap(): the view, or a panic.
Unwrap(hp, b) ==
    IF IsUnique(hp, b)
    THEN [view |-> RcView(b), panic |-> FALSE]
    ELSE [view |-> NoView, panic |-> TRUE]

\* Faulty variant of make_mut: always a view into what self holds, no copy.
make_mut_in_place(a, hp, st) ==
    CASE a.variant = "Rc" ->
            [arr |-> a, heap |-> hp, view |-> RcView(a.ref), panic |-> FALSE]
      [] a.variant = "Static" ->
            [arr |-> a, heap |-> hp, view |-> StaticView(a.ref), panic |-> FALSE]
      [] a.variant = "Single" ->
            [arr |-> a, heap |-> hp, view |-> SingleView, panic |-> FALSE]
\* IArray::make_mut on value a: the value self becomes, the heap afterwards,
\* the view returned and whether an unwrap() panicked.
make_mut(a, hp, st) ==
    CASE a.variant = "Rc" ->
            IF get_mut(a, hp) = NoView
            THEN LET nb == NewBuf(hp)
                     h1 == Collect(hp, nb, hp[a.ref].data)
                     h2 == DecStrong(h1, a.ref)
                     u  == Unwrap(h2, nb)
                 IN [arr |-> RcArr(nb), heap |-> h2, view |-> u.view, panic |-> u.panic]
            ELSE LET u == Unwrap(hp, a.ref)
                 IN [arr |-> a, heap |-> hp, view |-> u.view, panic |-> u.panic]
      [] a.variant = "Static" ->
            LET nb == NewBuf(hp)
                h1 == Collect(hp, nb, st[a.ref])
                u  == Unwrap(h1, nb)
            IN [arr |-> RcArr(nb), heap |-> h1, view |-> u.view, panic |-> u.panic]
      [] a.variant = "Single" ->
            [arr |-> a, heap |-> hp, view |-> SingleView, panic |-> FALSE]

\* make_mut allocates unless it can hand out what self already holds.
MakeMutAllocates(a, hp) ==
    \/ a.variant = "Static"
    \/ a.variant = "Rc" /\ get_mut(a, hp) = NoView

\* The other values that hold buffer b beside handle h: arrays and iterators.
OtherHolders(h, b) ==
    {<<"array", g>> : g \in {k \in H \ {h} : arr[k] = RcArr(b)}}
        \cup {<<"iter", i>> : i \in {k \in I : iters[k].array = RcArr(b)}}

\* Every value that holds buffer b.
Holders(b) == OtherHolders(0, b)

\* ------------------------------------------------------------------ Init

Init ==
    /\ arr = [h \in H |-> NoArr]
    /\ ghost = [h \in H |-> NoGhost]
    /\ iters = [i \in I |-> NoIter]
    /\ heap = [b \in B |-> FreeBuf]
    /\ statics = StaticTable
    /\ view = [h \in H |-> NoView]
    /\ last = NoLast
    /\ src = NoSrc
    /\ pc = [h \in H |-> "idle"]
    /\ tmp = [h \in H |-> 0]
    /\ flavor = "unsync"
    /\ ret = None
    /\ walk = [i \in I |-> NoWalk]
    /\ maps = [m \in M |-> NoMap]
    /\ strs = [s \in S |-> NoStr]
    /\ cow = [s \in S |-> None]

\* --------------------------------- Spec: the single-threaded operations

Dead(h) == arr[h] = NoArr
\* A live value that is not mutably borrowed, and whose owner is not inside
\* an operation on it, can be used.
Usable(h) == arr[h] # NoArr /\ view[h] = NoView /\ pc[h] = "idle"

Born(a, hp, p) == [born |-> SliceIn(a, hp, statics), parent |-> p, wrote |-> FALSE]

\* From<&'static [T]>
FromStatic(h, s) ==
    /\ Dead(h)
    /\ arr' = [arr EXCEPT ![h] = StaticArr(s)]
    /\ ghost' = [ghost EXCEPT ![h] = Born(StaticArr(s), heap, 0)]
    /\ last' = NoLast
    /\ UNCHANGED <<iters, heap, statics, view, src, pc, tmp, flavor, ret, walk, maps, strs, cow>>

\* From<Vec<T>>
FromVec(h, data) ==
    /\ Dead(h)
    /\ HasFree(heap)
    /\ LET nb == NewBuf(heap)
       IN /\ heap' = AllocIn(heap, nb, data, 0)
          /\ arr' = [arr EXCEPT ![h] = RcArr(nb)]
          /\ ghost' = [ghost EXCEPT ![h] = [born |-> data, parent |-> 0, wrote |-> FALSE]]
    /\ last' = NoLast
    /\ UNCHANGED <<iters, statics, view, src, pc, tmp, flavor, ret, walk, maps, strs, cow>>

\* From<Rc<[T]>>: the caller's Rc is taken as it is, with the w Weak
\* references its maker may have handed out.
FromRc(h, data, w) ==
    /\ Dead(h)
    /\ HasFree(heap)
    /\ LET nb == NewBuf(heap)
       IN /\ heap' = AllocIn(heap, nb, data, w)
          /\ arr' = [arr EXCEPT ![h] = RcArr(nb)]
          /\ ghost' = [ghost EXCEPT ![h] = [born |-> data, parent |-> 0, wrote |-> FALSE]]
    /\ last' = NoLast
    /\ UNCHANGED <<iters, statics, view, src, pc, tmp, flavor, ret, walk, maps, strs, cow>>

\* From<[T; 1]>
FromSingle(h, x) ==
    /\ Dead(h)
    /\ arr' = [arr EXCEPT ![h] = SingleArr(x)]
    /\ ghost' = [ghost EXCEPT ![h] = [born |-> <<x>>, parent |-> 0, wrote |-> FALSE]]
    /\ last' = NoLast
    /\ UNCHANGED <<iters, heap, statics, view, src, pc, tmp, flavor, ret, walk, maps, strs, cow>>

\* Clone for IArray: g = h.clone()
Clone(h, g) ==
    /\ Usable(h)
    /\ Dead(g)
    /\ arr' = [arr EXCEPT ![g] = arr[h]]
    /\ heap' = CloneHeap(heap, arr[h])
    /\ ghost' = [ghost EXCEPT ![g] = Born(arr[h], heap, h),
                              ![h] = Born(arr[h], heap, ghost[h].parent)]
    /\ last' = Op("clone", h, g, TRUE)
    /\ UNCHANGED <<iters, statics, view, src, pc, tmp, flavor, ret, walk, maps, strs, cow>>

\* The value in slot h goes out of scope.
Drop(h) ==
    /\ Usable(h)
    /\ heap' = DropArr(heap, arr[h])
    /\ arr' = [arr EXCEPT ![h] = NoArr]
    /\ ghost' = [k \in DOMAIN ghost |-> IF k = h THEN NoGhost
                             ELSE IF ghost[k].parent = h
                                  THEN [ghost[k] EXCEPT !.parent = -1]
                                  ELSE ghost[k]]
    /\ last' = NoLast
    /\ UNCHANGED <<iters, statics, view, src, pc, tmp, flavor, ret, walk, maps, strs, cow>>

\* An outside holder drops a Weak reference to buffer b.
DropWeak(b) ==
    /\ heap[b].weak > 0
    /\ heap' = DecWeak(heap, b)
    /\ last' = NoLast
    /\ UNCHANGED <<arr, ghost, iters, statics, view, src, pc, tmp, flavor, ret, walk, maps, strs, cow>>

\* Faulty variant of Iter: the iterator points at the array's buffer without
\* taking a reference of its own.
IterUncounted(h, i) ==
    /\ Usable(h)
    /\ iters[i] = NoIter
    /\ iters' = [iters EXCEPT ![i] = [array |-> arr[h], left |-> 0, right |-> len(arr[h])]]
    /\ walk' = [walk EXCEPT ![i] = [orig |-> as_slice(arr[h]), fronts |-> 0, backs |-> 0]]
    /\ last' = NoLast
    /\ UNCHANGED <<arr, ghost, heap, statics, view, src, pc, tmp, flavor, ret, maps, strs, cow>>

\* IArray::iter: Iter::new(self.clone())
Iter(h, i) ==
    /\ Usable(h)
    /\ iters[i] = NoIter
    /\ heap' = CloneHeap(heap, arr[h])
    /\ iters' = [iters EXCEPT ![i] = [array |-> arr[h], left |-> 0, right |-> len(arr[h])]]
    /\ walk' = [walk EXCEPT ![i] = [orig |-> as_slice(arr[h]), fronts |-> 0, backs |-> 0]]
    /\ last' = NoLast
    /\ UNCHANGED <<arr, ghost, statics, view, src, pc, tmp, flavor, ret, maps, strs, cow>>

\* The Iter in slot i goes out of scope, and its array with it.
DropIter(i) ==
    /\ iters[i] # NoIter
    /\ heap' = DropArr(heap, iters[i].array)
    /\ iters' = [iters EXCEPT ![i] = NoIter]
    /\ walk' = [walk EXCEPT ![i] = NoWalk]
    /\ last' = NoLast
    /\ UNCHANGED <<arr, ghost, statics, view, src, pc, tmp, flavor, ret, maps, strs, cow>>

\* Faulty variant of GetMut: a get_mut that fails takes the value out of
\* self, leaving EMPTY behind and releasing its buffer.
GetMutTakesOnFail(h) ==
    /\ Usable(h)
    /\ LET v == get_mut(arr[h], heap)
       IN /\ view' = [view EXCEPT ![h] = v]
          /\ last' = Op("get_mut", h, 0, v # NoView)
          /\ arr' = [arr EXCEPT ![h] = IF v = NoView THEN EMPTY ELSE @]
          /\ heap' = IF v = NoView THEN DropArr(heap, arr[h]) ELSE heap
    /\ UNCHANGED <<ghost, iters, statics, src, pc, tmp, flavor, ret, walk, maps, strs, cow>>

\* IArray::get_mut
GetMut(h) ==
    /\ Usable(h)
    /\ view' = [view EXCEPT ![h] = get_mut(arr[h], heap)]
    /\ last' = Op("get_mut", h, 0, get_mut(arr[h], heap) # NoView)
    /\ UNCHANGED <<arr, ghost, iters, heap, statics, src, pc, tmp, flavor, ret, walk, maps, strs, cow>>

\* IArray::make_mut
MakeMut(h) ==
    /\ Usable(h)
    /\ MakeMutAllocates(arr[h], heap) => HasFree(heap)
    /\ LET r == make_mut(arr[h], heap, statics)
       IN /\ arr' = [arr EXCEPT ![h] = r.arr]
          /\ heap' = r.heap
          /\ view' = [view EXCEPT ![h] = r.view]
          /\ last' = Op("make_mut", h, 0, ~r.panic)
    /\ UNCHANGED <<ghost, iters, statics, src, pc, tmp, flavor, ret, walk, maps, strs, cow>>

\* A store through the view borrowed from h: slice[i] = x (i counted from 1).
\* The store goes wherever the view points, Static memory included.
Write(h, i, x) ==
    /\ view[h] # NoView
    /\ CASE view[h].kind = "Rc" ->
              /\ i \in 1..Len(heap[view[h].ref].data)
              /\ heap' = [heap EXCEPT ![view[h].ref].data[i] = x]
              /\ UNCHANGED <<arr, statics>>
         [] view[h].kind = "Static" ->
              /\ i \in 1..Len(statics[view[h].ref])
              /\ statics' = [statics EXCEPT ![view[h].ref][i] = x]
              /\ UNCHANGED <<arr, heap>>
         [] view[h].kind = "Single" ->
              /\ i = 1
              /\ arr' = [arr EXCEPT ![h].inl[1] = x]
              /\ UNCHANGED <<heap, statics>>
    /\ ghost' = [ghost EXCEPT ![h].wrote = TRUE]
    /\ last' = NoLast
    /\ UNCHANGED <<view, iters, src, pc, tmp, flavor, ret, walk, maps, strs, cow>>

\* The borrow taken by get_mut / make_mut ends.
Release(h) ==
    /\ view[h] # NoView
    /\ view' = [view EXCEPT ![h] = NoView]
    /\ last' = NoLast
    /\ UNCHANGED <<arr, ghost, iters, heap, statics, src, pc, tmp, flavor, ret, walk, maps, strs, cow>>

\* g == h, by the derived PartialEq.
Compare(g, h) ==
    /\ Usable(g)
    /\ Usable(h)
    /\ last' = Op("eq", g, h, DerivedEq(arr[g], arr[h], heap, statics))
    /\ UNCHANGED <<arr, ghost, iters, heap, statics, view, src, pc, tmp, flavor, ret, walk, maps, strs, cow>>

Next ==
    \/ \E h \in H, s \in 1..NStatic : FromStatic(h, s)
    \/ \E h \in H, data \in SeqsUpTo(MaxLen) : FromVec(h, data)
    \/ \E h \in H, data \in SeqsUpTo(MaxLen), w \in 0..MaxWeak : FromRc(h, data, w)
    \/ \E h \in H, x \in Elem : FromSingle(h, x)
    \/ \E h \in H, g \in H : Clone(h, g)
    \/ \E h \in H : Drop(h)
    \/ \E b \in B : DropWeak(b)
    \/ \E h \in H, i \in I : Iter(h, i)
    \/ \E i \in I : DropIter(i)
    \/ \E h \in H : GetMut(h)
    \/ \E h \in H : MakeMut(h)
    \/ \E h \in H, i \in 1..MaxLen, x \in Elem : Write(h, i, x)
    \/ \E h \in H : Release(h)
    \/ \E g \in H, h \in H : g < h /\ Compare(g, h)

Spec == Init /\ [][Next]_vars

\* ------------------------------------------- IterSpec: from_iter applied

\* Faulty variant of from_iter: no arm for an upper bound of 1.
from_iter_no_single(it, hp) ==
    IF it.hi = 0
    THEN [arr |-> EMPTY, heap |-> hp, it |-> it]
    ELSE LET nb == NewBuf(hp)
         IN [arr |-> RcArr(nb),
             heap |-> AllocIn(hp, nb, it.rest, 0),
             it |-> [it EXCEPT !.rest = <<>>, !.drained = TRUE]]
\* FromIterator for IArray: the array built, the heap afterwards and the
\* iterator as from_iter leaves it.
from_iter(it, hp) ==
    CASE it.hi = 0 ->
            [arr |-> EMPTY, heap |-> hp, it |-> it]
      [] it.hi = 1 ->
            IF it.rest # <<>>
            THEN [arr |-> SingleArr(Head(it.rest)),
                  heap |-> hp,
                  it |-> [it EXCEPT !.rest = Tail(it.rest), !.pulls = @ + 1]]
            ELSE [arr |-> EMPTY, heap |-> hp, it |-> [it EXCEPT !.pulls = @ + 1]]
      [] OTHER ->
            LET nb == NewBuf(hp)
            IN [arr |-> RcArr(nb),
                heap |-> AllocIn(hp, nb, it.rest, 0),
                it |-> [it EXCEPT !.rest = <<>>, !.drained = TRUE]]

IterInit ==
    /\ arr = [h \in H |-> NoArr]
    /\ ghost = [h \in H |-> NoGhost]
    /\ iters = [i \in I |-> NoIter]
    /\ heap = [b \in B |-> FreeBuf]
    /\ statics = StaticTable
    /\ view = [h \in H |-> NoView]
    /\ last = NoLast
    /\ src \in {NewSrc(q, l, u) : q \in SeqsUpTo(MaxYield), l \in 0..1, u \in -1..MaxYield}
    /\ pc = [h \in H |-> "idle"]
    /\ tmp = [h \in H |-> 0]
    /\ flavor = "unsync"
    /\ ret = None
    /\ walk = [i \in I |-> NoWalk]
    /\ maps = [m \in M |-> NoMap]
    /\ strs = [s \in S |-> NoStr]
    /\ cow = [s \in S |-> None]

\* it.collect::<IArray<T>>() into slot h
FromIter(h) ==
    /\ Dead(h)
    /\ src.out = 0
    /\ HasFree(heap)
    /\ LET r == from_iter(src, heap)
       IN /\ arr' = [arr EXCEPT ![h] = r.arr]
          /\ heap' = r.heap
          /\ src' = [r.it EXCEPT !.out = h]
          /\ ghost' = [ghost EXCEPT ![h] = Born(r.arr, r.heap, 0)]
    /\ last' = NoLast
    /\ UNCHANGED <<iters, statics, view, pc, tmp, flavor, ret, walk, maps, strs, cow>>

IterSpecNext ==
    \/ \E h \in H : FromIter(h)
    \/ \E h \in H, s \in 1..NStatic : FromStatic(h, s)
    \/ \E h \in H, x \in Elem : FromSingle(h, x)
    \/ \E g \in H, h \in H : g < h /\ Compare(g, h)

IterSpec == IterInit /\ [][IterSpecNext]_vars

\* ----------------------- SyncSpec: the atomic flavor, one thread per slot

\* Thread t owns the value in slot t. Arc::clone, the drop of an Arc and
\* Arc::get_mut are single steps; make_mut is split where it touches a count:
\* the first get_mut, the collect into a new Arc, the assignment that drops
\* the old Arc, the second get_mut with its unwrap.

\* make_mut, to its first Rc::get_mut(rc).is_none() (or the match arm taken).
MakeMutBegin(t) ==
    /\ Usable(t)
    /\ CASE arr[t].variant = "Rc" ->
              /\ pc' = [pc EXCEPT ![t] =
                        IF get_mut(arr[t], heap) = NoView THEN "collect" ELSE "unwrap"]
              /\ UNCHANGED view
         [] arr[t].variant = "Static" ->
              /\ pc' = [pc EXCEPT ![t] = "collect"]
              /\ UNCHANGED view
         [] arr[t].variant = "Single" ->
              /\ view' = [view EXCEPT ![t] = SingleView]
              /\ UNCHANGED pc
    /\ last' = NoLast
    /\ UNCHANGED <<arr, ghost, iters, heap, statics, src, tmp, flavor, ret, walk, maps, strs, cow>>

\* rc.iter().cloned().collect::<Rc<[T]>>() / slice.iter().cloned().collect()
MakeMutCollect(t) ==
    /\ pc[t] = "collect"
    /\ HasFree(heap)
    /\ LET nb == NewBuf(heap)
       IN /\ heap' = Collect(heap, nb, as_slice(arr[t]))
          /\ tmp' = [tmp EXCEPT ![t] = nb]
    /\ pc' = [pc EXCEPT ![t] = "assign"]
    /\ last' = NoLast
    /\ UNCHANGED <<arr, ghost, iters, statics, view, src, flavor, ret, walk, maps, strs, cow>>

\* Faulty variant of MakeMutAssign: the copy is thrown away and self keeps
\* what it held.
MakeMutAssignKeepsOld(t) ==
    /\ pc[t] = "assign"
    /\ heap' = DropArr(heap, RcArr(tmp[t]))
    /\ tmp' = [tmp EXCEPT ![t] = 0]
    /\ pc' = [pc EXCEPT ![t] = "unwrap"]
    /\ last' = NoLast
    /\ UNCHANGED <<arr, ghost, iters, statics, view, src, flavor, ret, walk, maps, strs, cow>>

\* *rc = ..  /  *self = Self::Rc(..): the old value is dropped.
MakeMutAssign(t) ==
    /\ pc[t] = "assign"
    /\ heap' = DropArr(heap, arr[t])
    /\ arr' = [arr EXCEPT ![t] = RcArr(tmp[t])]
    /\ tmp' = [tmp EXCEPT ![t] = 0]
    /\ pc' = [pc EXCEPT ![t] = "unwrap"]
    /\ last' = NoLast
    /\ UNCHANGED <<ghost, iters, statics, view, src, flavor, ret, walk, maps, strs, cow>>

\* Rc::get_mut(rc).unwrap()
MakeMutUnwrap(t) ==
    /\ pc[t] = "unwrap"
    /\ LET u == Unwrap(heap, arr[t].ref)
       IN /\ view' = [view EXCEPT ![t] = u.view]
          /\ pc' = [pc EXCEPT ![t] = IF u.panic THEN "panicked" ELSE "idle"]
          /\ last' = Op("make_mut", t, 0, ~u.panic)
    /\ UNCHANGED <<arr, ghost, iters, heap, statics, src, tmp, flavor, ret, walk, maps, strs, cow>>

\* The arrays the threads are given.
SyncData == UNION {[1..k -> 1..SyncElem] : k \in 0..SyncLen}

\* Threads 1..MaxHandles make arrays and run every operation; the threads
\* beyond them take clones of the others' arrays and drop them, at any
\* point of the others' operations.
SyncNext ==
    \/ \E t \in H, s \in 1..(SyncLen + 1) : FromStatic(t, s)
    \/ \E t \in H, data \in SyncData, w \in 0..MaxWeak : FromRc(t, data, w)
    \/ \E t \in H, x \in 1..SyncElem : FromSingle(t, x)
    \/ \E b \in B : DropWeak(b)
    \/ \E t \in T, u \in T : Clone(t, u)
    \/ \E t \in T : Drop(t)
    \/ \E t \in H : GetMut(t)
    \/ \E t \in H : MakeMutBegin(t)
    \/ \E t \in H : MakeMutCollect(t)
    \/ \E t \in H : MakeMutAssign(t)
    \/ \E t \in H : MakeMutUnwrap(t)
    \/ \E t \in H, i \in 1..SyncLen, x \in 1..SyncElem : Write(t, i, x)
    \/ \E t \in H : Release(t)

SyncInit ==
    /\ arr = [h \in T |-> NoArr]
    /\ ghost = [h \in T |-> NoGhost]
    /\ iters = [i \in I |-> NoIter]
    /\ heap = [b \in B |-> FreeBuf]
    /\ statics = StaticTable
    /\ view = [h \in T |-> NoView]
    /\ last = NoLast
    /\ src = NoSrc
    /\ pc = [h \in T |-> "idle"]
    /\ tmp = [h \in T |-> 0]
    /\ flavor = "sync"
    /\ ret = None
    /\ walk = [i \in I |-> NoWalk]
    /\ maps = [m \in M |-> NoMap]
    /\ strs = [s \in S |-> NoStr]
    /\ cow = [s \in S |-> None]

SyncSpec == SyncInit /\ [][SyncNext]_vars

\* ------------------- ReadSpec: the read-only operations on one array

\* Faulty variant of next_back: reads at right before stepping it down.
next_back_reads_first(it) ==
    IF it.left >= it.right
    THEN [it |-> it, item |-> 0]
    ELSE [it |-> [it EXCEPT !.right = @ - 1], item |-> get(it.array, it.right)]

\* Iterator::next for Iter: the iterator afterwards and the item (0 for None).
next(it) ==
    IF it.left >= it.right
    THEN [it |-> it, item |-> 0]
    ELSE [it |-> [it EXCEPT !.left = @ + 1], item |-> get(it.array, it.left)]

\* DoubleEndedIterator::next_back for Iter.
next_back(it) ==
    IF it.left >= it.right
    THEN [it |-> it, item |-> 0]
    ELSE [it |-> [it EXCEPT !.right = @ - 1], item |-> get(it.array, it.right - 1)]

\* One array, of any variant and any content, in slot 1.
ReadInit ==
    /\ \E a \in {StaticArr(s) : s \in 1..NStatic} \cup {RcArr(1)} \cup {SingleArr(x) : x \in Elem} :
          /\ arr = [h \in H |-> IF h = 1 THEN a ELSE NoArr]
          /\ \E data \in SeqsUpTo(MaxWalk) :
                /\ heap = [b \in B |-> IF b = 1 /\ a.variant = "Rc"
                                       THEN [state |-> "live", data |-> data,
                                             strong |-> 1, weak |-> 0]
                                       ELSE FreeBuf]
                /\ a.variant # "Rc" => data = <<>>
          /\ ghost = [h \in H |-> IF h = 1
                                  THEN [born |-> SliceIn(a, heap, StaticTable),
                                        parent |-> 0, wrote |-> FALSE]
                                  ELSE NoGhost]
    /\ iters = [i \in I |-> NoIter]
    /\ statics = StaticTable
    /\ view = [h \in H |-> NoView]
    /\ last = NoLast
    /\ src = NoSrc
    /\ pc = [h \in H |-> "idle"]
    /\ tmp = [h \in H |-> 0]
    /\ flavor = "unsync"
    /\ ret = None
    /\ walk = [i \in I |-> NoWalk]
    /\ maps = [m \in M |-> NoMap]
    /\ strs = [s \in S |-> NoStr]
    /\ cow = [s \in S |-> None]

\* it.next() on the iterator in slot i
IterNext(i) ==
    /\ iters[i] # NoIter
    /\ LET r == next(iters[i])
       IN /\ iters' = [iters EXCEPT ![i] = r.it]
          /\ ret' = Opt(r.item)
          /\ last' = Op("next", i, 0, r.item # 0)
          /\ walk' = [walk EXCEPT ![i].fronts = IF r.item # 0 THEN @ + 1 ELSE @]
    /\ UNCHANGED <<arr, ghost, heap, statics, view, src, pc, tmp, flavor, maps, strs, cow>>

\* it.next_back() on the iterator in slot i
IterNextBack(i) ==
    /\ iters[i] # NoIter
    /\ LET r == next_back(iters[i])
       IN /\ iters' = [iters EXCEPT ![i] = r.it]
          /\ ret' = Opt(r.item)
          /\ last' = Op("next_back", i, 0, r.item # 0)
          /\ walk' = [walk EXCEPT ![i].backs = IF r.item # 0 THEN @ + 1 ELSE @]
    /\ UNCHANGED <<arr, ghost, heap, statics, view, src, pc, tmp, flavor, maps, strs, cow>>

\* [T]::eq(&[U]): the same length and equal elements at every index.
SliceEq(s, o) == Len(s) = Len(o) /\ \A k \in 1..Len(s) : s[k] = o[k]

\* Faulty variant of EqArray: the Single arm compares the first elements
\* without asking for N == 1.
EqArrayFirstOnly(a, other) ==
    CASE a.variant = "Static" -> SliceEq(statics[a.ref], other)
      [] a.variant = "Rc"     -> SliceEq(heap[a.ref].data, other)
      [] a.variant = "Single" -> Len(other) >= 1 /\ a.inl[1] = other[1]

\* PartialEq<&[U; N]> for IArray; N is Len(other).
EqArrayRef(a, other) ==
    CASE a.variant = "Static" -> SliceEq(statics[a.ref], other)
      [] a.variant = "Rc"     -> SliceEq(heap[a.ref].data, other)
      [] a.variant = "Single" -> IF Len(other) = 1 THEN a.inl[1] = other[1] ELSE FALSE

\* PartialEq<[U; N]> for IArray
EqArray(a, other) ==
    CASE a.variant = "Static" -> SliceEq(statics[a.ref], other)
      [] a.variant = "Rc"     -> SliceEq(heap[a.ref].data, other)
      [] a.variant = "Single" -> IF Len(other) = 1 THEN a.inl[1] = other[1] ELSE FALSE

\* PartialEq<[U]> for IArray
EqSlice(a, other) ==
    CASE a.variant = "Static" -> SliceEq(statics[a.ref], other)
      [] a.variant = "Rc"     -> SliceEq(heap[a.ref].data, other)
      [] a.variant = "Single" -> SliceEq(a.inl, other)

\* PartialEq<&[U]> for IArray
EqSliceRef(a, other) ==
    CASE a.variant = "Static" -> SliceEq(statics[a.ref], other)
      [] a.variant = "Rc"     -> SliceEq(heap[a.ref].data, other)
      [] a.variant = "Single" -> SliceEq(a.inl, other)

RawKinds == {"eq_array_ref", "eq_array", "eq_slice", "eq_slice_ref"}

\* a == other, for a raw value of the given kind, on the array in slot h
EqRaw(h, kind, other) ==
    /\ Usable(h)
    /\ last' = Op(kind, h, other,
                  CASE kind = "eq_array_ref" -> EqArrayRef(arr[h], other)
                    [] kind = "eq_array"     -> EqArray(arr[h], other)
                    [] kind = "eq_slice"     -> EqSlice(arr[h], other)
                    [] kind = "eq_slice_ref" -> EqSliceRef(arr[h], other))
    /\ ret' = None
    /\ UNCHANGED <<arr, ghost, iters, heap, statics, view, src, pc, tmp, flavor, walk, maps, strs, cow>>

\* a.get(index) on the array in slot h
Get(h, index) ==
    /\ Usable(h)
    /\ ret' = Opt(get(arr[h], index))
    /\ last' = Op("get", h, index, get(arr[h], index) # 0)
    /\ UNCHANGED <<arr, ghost, iters, heap, statics, view, src, pc, tmp, flavor, walk, maps, strs, cow>>

ReadNext ==
    \/ \E h \in H, i \in I : Iter(h, i)
    \/ \E i \in I : DropIter(i)
    \/ \E i \in I : IterNext(i)
    \/ \E i \in I : IterNextBack(i)
    \/ \E h \in H, index \in 0..(MaxWalk + 1) : Get(h, index)
    \/ \E h \in H, kind \in RawKinds, other \in SeqsUpTo(MaxWalk) : EqRaw(h, kind, other)

ReadSpec == ReadInit /\ [][ReadNext]_vars

\* ==================================================== claims under Spec

\* The storage a view handed out for value a points into.
ViewOf(a) ==
    CASE a.variant = "Rc"     -> RcView(a.ref)
      [] a.variant = "Static" -> StaticView(a.ref)
      [] a.variant = "Single" -> SingleView
      [] OTHER                -> NoView

\* C1: copy-on-write isolation. A live array that has not been written
\* through its own view since it was made or last cloned still has the
\* elements it had then, whatever make_mut calls and writes went through
\* its clones or through the array it was cloned from.
C1_CowIsolation ==
    \A h \in H :
        (arr[h] # NoArr /\ ~ghost[h].wrote) => as_slice(arr[h]) = ghost[h].born

\* C1 witness: g is a clone of an Rc array h, h was then written through
\* make_mut / get_mut, and the two now differ.
C1_Witness ==
    \E h \in H, g \in H :
        /\ ghost[g].parent = h
        /\ arr[g].variant = "Rc"
        /\ arr[h].variant = "Rc"
        /\ ghost[h].wrote
        /\ ~ghost[g].wrote
        /\ as_slice(arr[h]) # as_slice(arr[g])

\* C2 as stated: get_mut on an Rc array returns Some exactly when no other
\* clone (array or iterator) of it is alive.
C2_SomeOnceClonesDropped ==
    \A h \in H :
        (last.op = "get_mut" /\ last.h = h /\ arr[h].variant = "Rc")
            => (last.ok <=> OtherHolders(h, arr[h].ref) = {})

\* C2 amended: get_mut on an Rc array returns None while another clone of it
\* is alive or a Weak reference to its buffer is outstanding; otherwise it
\* returns Some, a view into the buffer the array already held; in both
\* cases the array, its buffer and every count are left as they were.
C2_GetMutExclusive ==
    [][\A h \in H :
        (last'.op = "get_mut" /\ last'.h = h /\ arr[h].variant = "Rc") =>
            /\ last'.ok <=> (OtherHolders(h, arr[h].ref) = {} /\ heap[arr[h].ref].weak = 0)
            /\ arr' = arr
            /\ heap' = heap
            /\ view'[h] = IF last'.ok THEN RcView(arr[h].ref) ELSE NoView]_vars

\* C2 witness: a clone whose source has been dropped, no other holder left,
\* and get_mut has just returned Some on it.
C2_Witness ==
    \E h \in H :
        /\ last.op = "get_mut" /\ last.h = h /\ last.ok
        /\ arr[h].variant = "Rc"
        /\ ghost[h].parent = -1
        /\ view[h] = RcView(arr[h].ref)

\* C3: a mutable view never points into a Static slice, and a view into an
\* Rc buffer belongs to the one value that holds that buffer.
C3_ViewExclusive ==
    \A h \in H :
        /\ view[h].kind # "Static"
        /\ view[h].kind = "Rc" =>
              /\ arr[h] = RcArr(view[h].ref)
              /\ heap[view[h].ref].state = "live"
              /\ heap[view[h].ref].strong = 1
              /\ heap[view[h].ref].weak = 0
              /\ OtherHolders(h, view[h].ref) = {}
        /\ view[h].kind = "Single" => arr[h].variant = "Single"

\* C3 witness: a view into h's Rc buffer is out while the Rc array g that h
\* was cloned from is alive: h has left the shared buffer through make_mut.
C3_Witness ==
    \E h \in H, g \in H :
        /\ g # h
        /\ view[h].kind = "Rc"
        /\ arr[g].variant = "Rc"
        /\ ghost[h].parent = g

\* C4 as stated: two arrays with the same elements compare equal, whatever
\* their variants.
C4_EqByContent ==
    last.op = "eq" =>
        (as_slice(arr[last.h]) = as_slice(arr[last.g]) => last.ok)

\* C8: make_mut's variant transitions, and the slice it returns.
C8_MakeMutTransitions ==
    [][\A h \in H :
        (last'.op = "make_mut" /\ last'.h = h) =>
            LET a == arr[h]
                n == arr'[h]
                sole == OtherHolders(h, a.ref) = {} /\ heap[a.ref].weak = 0
                fresh == /\ n.variant = "Rc"
                         /\ heap[n.ref].state = "free"
                         /\ heap'[n.ref].state = "live"
                         /\ heap'[n.ref].strong = 1
            IN  /\ last'.ok
                /\ a.variant = "Static" =>
                      /\ fresh
                      /\ heap'[n.ref].data = statics[a.ref]
                      /\ \A b \in B \ {n.ref} : heap'[b] = heap[b]
                /\ (a.variant = "Rc" /\ sole) => (n = a /\ heap' = heap)
                /\ (a.variant = "Rc" /\ ~sole) =>
                      /\ fresh
                      /\ n.ref # a.ref
                      /\ heap'[n.ref].data = heap[a.ref].data
                      /\ heap'[a.ref].strong = heap[a.ref].strong - 1
                      /\ heap'[a.ref].weak = heap[a.ref].weak
                /\ a.variant = "Single" => (n = a /\ heap' = heap)
                /\ view'[h] = ViewOf(n)
                /\ view'[h] # NoView
                /\ SliceIn(n, heap', statics') = SliceIn(a, heap, statics)
                /\ statics' = statics
                /\ \A g \in H \ {h} : arr'[g] = arr[g]]_vars

\* C8 witness: make_mut has just moved an Rc array off a buffer that its
\* clone still holds.
C8_Witness ==
    \E h \in H, g \in H :
        /\ last.op = "make_mut" /\ last.h = h
        /\ ghost[g].parent = h
        /\ arr[h].variant = "Rc"
        /\ arr[g].variant = "Rc"
        /\ arr[h].ref # arr[g].ref
        /\ as_slice(arr[h]) = as_slice(arr[g])
        /\ Len(as_slice(arr[h])) > 0

\* C10: each buffer's strong count is the number of live arrays and
\* iterators that hold it, and the buffer's contents are live exactly while
\* that count is not zero.
C10_RefCount ==
    \A b \in B :
        /\ heap[b].strong = Cardinality(Holders(b))
        /\ heap[b].state = "live" <=> heap[b].strong > 0
        /\ heap[b].state = "free" => (heap[b].weak = 0 /\ heap[b].data = <<>>)

\* C10 witness: a buffer held by two arrays and an iterator at once, and
\* another buffer whose contents were released while a Weak remains.
C10_Witness ==
    \E b \in B, c \in B :
        /\ Cardinality(Holders(b)) = 3
        /\ heap[c].state = "dropped"

\* ================================================ claims under IterSpec

\* The hint is one a well-behaved iterator may declare for what it yields.
HonestHint ==
    /\ src.lo <= Len(src.yields)
    /\ src.hi = -1 \/ src.hi >= Len(src.yields)

\* C5 as stated: whatever the hint, the collected array holds everything
\* the iterator produces, in order.
C5_CollectsEverything ==
    src.out # 0 => as_slice(arr[src.out]) = src.yields

\* C6 as stated: an iterator that yields nothing collects to an array that
\* == IArray::EMPTY, and one that yields just x to an array of len() 1 that
\* == IArray::from([x]), for every hint it may declare.
C6_ShortIterators ==
    \A h \in H, g \in H :
        (/\ last.op = "eq"
         /\ {last.h, last.g} = {h, g}
         /\ src.out = h
         /\ HonestHint) =>
            /\ (src.yields = <<>> /\ arr[g] = EMPTY) => last.ok
            /\ Len(src.yields) = 1 => len(arr[h]) = 1
            /\ (Len(src.yields) = 1 /\ arr[g] = SingleArr(src.yields[1])) => last.ok

\* C7: from_iter picks the variant from the hint's upper bound alone: 0
\* gives EMPTY without a pull; 1 gives, after one pull, Single of the element
\* pulled or EMPTY when there was none; anything else gives Rc, the iterator
\* handed to Rc::from_iter.
C7_VariantSelection ==
    src.out # 0 =>
        LET a == arr[src.out]
        IN  /\ src.hi = 0 =>
                  (a = EMPTY /\ src.pulls = 0 /\ ~src.drained /\ src.rest = src.yields)
            /\ src.hi = 1 =>
                  /\ src.pulls = 1 /\ ~src.drained
                  /\ src.yields # <<>> => a = SingleArr(src.yields[1])
                  /\ src.yields = <<>> => a = EMPTY
            /\ src.hi \notin {0, 1} =>
                  (a.variant = "Rc" /\ src.drained /\ src.pulls = 0
                   /\ heap[a.ref].data = src.yields)

\* C7 witness: the hint (0, Some(1)) and one element pulled, as for
\* [2].into_iter().filter(..) in from_iter_is_optimized.
C7_Witness ==
    /\ src.out # 0
    /\ src.lo = 0 /\ src.hi = 1
    /\ Len(src.yields) = 1
    /\ arr[src.out].variant = "Single"

\* ================================================ claims under SyncSpec

\* C9: in the atomic flavor, under every interleaving of the threads'
\* clone, drop, get_mut and make_mut steps, a thread's mutable view never
\* points into a Static slice or into a buffer that another thread's live
\* value, or a buffer another thread is about to install, refers to.
C9_NoSharedMutableView ==
    \A t \in DOMAIN view :
        /\ view[t].kind # "Static"
        /\ view[t].kind = "Rc" =>
              /\ heap[view[t].ref].state = "live"
              /\ arr[t] = RcArr(view[t].ref)
              /\ \A u \in DOMAIN arr \ {t} :
                    arr[u] # RcArr(view[t].ref) /\ tmp[u] # view[t].ref

\* C9 witness: thread u, once a clone of thread t's array, holds a view into
\* a buffer of its own, and t has just cloned the buffer it holds into the
\* slot of a third thread.
C9_Witness ==
    \E t \in T, u \in T, w \in T :
        /\ t # u /\ t # w /\ u # w
        /\ last = Op("clone", t, w, TRUE)
        /\ view[u].kind = "Rc"
        /\ arr[u] = RcArr(view[u].ref)
        /\ ghost[u].parent = t
        /\ arr[t].variant = "Rc"
        /\ arr[w] = arr[t]
        /\ arr[t] # arr[u]
        /\ heap[arr[t].ref].strong = 2

\* C26: make_mut never panics. Whatever the other threads do to the old
\* buffer between its steps, and whether or not Weak references came in with
\* the Rc, the unwrap() of the second Rc::get_mut succeeds, and the match
\* after the Static branch's assignment finds self an Rc.
C26_MakeMutNoPanic ==
    /\ last.op = "make_mut" => last.ok
    /\ \A t \in DOMAIN pc :
          /\ pc[t] # "panicked"
          /\ pc[t] = "unwrap" => arr[t].variant = "Rc"

\* Thread u is inside make_mut, between its copy and the assignment, on a
\* buffer that came in with a Weak reference; thread t, another holder of
\* that buffer, has just cloned it into the slot of a third thread.
C26_Witness ==
    \E t \in T, u \in T, w \in T :
        /\ t # u /\ t # w /\ u # w
        /\ last = Op("clone", t, w, TRUE)
        /\ pc[u] = "assign"
        /\ arr[u].variant = "Rc"
        /\ arr[t] = arr[u]
        /\ arr[w] = arr[u]
        /\ heap[arr[u].ref].strong = 3
        /\ heap[arr[u].ref].weak > 0
        /\ heap[tmp[u]].state = "live"

\* C12: get_mut on the variants without a reference count. On a Static array
\* it returns None, on a Single array it returns Some, a view of the one
\* element the value holds inline, however many clones of the array exist.
C12_NonRcGetMut ==
    last.op = "get_mut" =>
       /\ arr[last.h].variant = "Static" => ~last.ok /\ view[last.h] = NoView
       /\ arr[last.h].variant = "Single" => last.ok /\ view[last.h] = SingleView

\* get_mut has just returned Some on a Single array whose clone is alive.
C12_Witness ==
    /\ last.op = "get_mut"
    /\ last.ok
    /\ arr[last.h].variant = "Single"
    /\ \E g \in H \ {last.h} : arr[g] = arr[last.h] /\ ghost[g].parent = last.h

\* C13: a get_mut that returns None changes nothing: every array keeps its
\* variant and its buffer, every buffer its elements and its counts, static
\* memory and the iterators are as before and no view exists that did not;
\* and make_mut on the same array then returns a view.
C13_FailedGetMutFrame ==
    [][(last'.op = "get_mut" /\ ~last'.ok) =>
          /\ arr' = arr
          /\ heap' = heap
          /\ statics' = statics
          /\ iters' = iters
          /\ view' = view
          /\ HasFree(heap') =>
                LET r == make_mut(arr'[last'.h], heap', statics')
                IN r.view # NoView /\ ~r.panic
      ]_vars

\* get_mut has just returned None on an Rc array that shares its buffer with
\* a clone, and a buffer is free for make_mut to copy into.
C13_Witness ==
    /\ last.op = "get_mut"
    /\ ~last.ok
    /\ arr[last.h].variant = "Rc"
    /\ \E g \in H \ {last.h} : arr[g] = arr[last.h]
    /\ HasFree(heap)

\* ------ SnapSpec: an iterator walked while its source array is mutated
\* through make_mut, or dropped and replaced (slot 1 is the source).

SnapNext ==
    \/ \E h \in H, i \in I : Iter(h, i)
    \/ \E i \in I : DropIter(i)
    \/ \E i \in I : IterNext(i)
    \/ \E i \in I : IterNextBack(i)
    \/ \E h \in H : GetMut(h)
    \/ \E h \in H : MakeMut(h)
    \/ \E h \in H, k \in 1..MaxWalk, x \in Elem : Write(h, k, x)
    \/ \E h \in H : Release(h)
    \/ \E h \in H : Drop(h)
    \/ \E data \in SeqsUpTo(MaxLen) : FromVec(1, data)

SnapSpec == ReadInit /\ [][SnapNext]_vars

\* ------------- EditSpec: the structural edits of the sequence container
\* src/src/array.rs has no editing operation (its type doc sends the caller
\* through to_vec and IArray::from); these follow the specification's text:
\* "rebuild a new Shared buffer consisting of the unaffected head, the edit,
\* and the unaffected tail, then replace self's variant with that buffer",
\* an index or range out of bounds being a fatal precondition violation.

\* Faulty variant of insert_many: the new elements go to the end.
insert_many_appends(s, i, xs) == s \o xs

\* insert_many on slice s: head s[0..i], the edit xs, tail s[i..].
insert_many(s, i, xs) == SubSeq(s, 1, i) \o xs \o SubSeq(s, i + 1, Len(s))

\* remove_range on slice s over [i, j): head s[0..i], tail s[j..].
remove_range(s, i, j) == SubSeq(s, 1, i) \o SubSeq(s, j + 1, Len(s))

\* self becomes an Rc over a new buffer holding data; what it held is dropped.
Rebuild(h, data) ==
    LET nb == NewBuf(heap)
    IN /\ heap' = DropArr(Collect(heap, nb, data), arr[h])
       /\ arr' = [arr EXCEPT ![h] = RcArr(nb)]
       /\ ghost' = [ghost EXCEPT ![h] = [born |-> data, parent |-> 0, wrote |-> FALSE]]

\* a.insert_many(i, xs) on the array in slot h
InsertMany(h, i, xs) ==
    /\ Usable(h)
    /\ HasFree(heap)
    /\ Len(as_slice(arr[h])) + Len(xs) <= MaxWalk
    /\ IF i <= Len(as_slice(arr[h]))
       THEN /\ Rebuild(h, insert_many(as_slice(arr[h]), i, xs))
            /\ last' = Op("insert_many", h, <<i, xs>>, TRUE)
            /\ UNCHANGED pc
       ELSE /\ pc' = [pc EXCEPT ![h] = "panicked"]
            /\ last' = Op("insert_many", h, <<i, xs>>, FALSE)
            /\ UNCHANGED <<arr, ghost, heap>>
    /\ UNCHANGED <<iters, statics, view, src, tmp, flavor, ret, walk, maps, strs, cow>>

\* a.remove_range(i..j) on the array in slot h
RemoveRange(h, i, j) ==
    /\ Usable(h)
    /\ HasFree(heap)
    /\ IF i <= j /\ j <= Len(as_slice(arr[h]))
       THEN /\ Rebuild(h, remove_range(as_slice(arr[h]), i, j))
            /\ last' = Op("remove_range", h, <<i, j>>, TRUE)
            /\ UNCHANGED pc
       ELSE /\ pc' = [pc EXCEPT ![h] = "panicked"]
            /\ last' = Op("remove_range", h, <<i, j>>, FALSE)
            /\ UNCHANGED <<arr, ghost, heap>>
    /\ UNCHANGED <<iters, statics, view, src, tmp, flavor, ret, walk, maps, strs, cow>>

EditNext ==
    \/ \E h \in H, i \in 0..(MaxWalk + 1), xs \in SeqsUpTo(MaxEdit) : InsertMany(h, i, xs)
    \/ \E h \in H, i \in 0..(MaxWalk + 1), j \in 0..(MaxWalk + 1) : RemoveRange(h, i, j)

EditSpec == ReadInit /\ [][EditNext]_vars

\* ------------------------------------------------ MapSpec: IMap (map.rs)

\* Pair lists of at most n pairs.
PairSeqs(n) == UNION {[1..k -> Key \X Val] : k \in 0..n}

\* The place (from 1) of the first pair of slice p whose key is key, 0 if
\* there is none: a.iter().find(..) / a.iter().enumerate().find_map(..).
FindFirst(p, key) ==
    IF \E i \in 1..Len(p) : p[i][1] = key
    THEN CHOOSE i \in 1..Len(p) : p[i][1] = key /\ \A j \in 1..(i - 1) : p[j][1] # key
    ELSE 0

\* IndexMap::get_index_of on entries es: the place (from 1) of the entry
\* stored for key, 0 if there is none.
EntryOf(es, key) ==
    IF \E i \in 1..Len(es) : es[i][1] = key
    THEN CHOOSE i \in 1..Len(es) : es[i][1] = key
    ELSE 0

\* IndexMap::insert: a key already present keeps its place and its key and
\* takes the new value; a new key goes to the end.
IndexMapInsert(es, kv) ==
    IF EntryOf(es, kv[1]) # 0
    THEN [es EXCEPT ![EntryOf(es, kv[1])] = <<es[EntryOf(es, kv[1])][1], kv[2]>>]
    ELSE Append(es, kv)

\* Faulty variant of IndexMapCollect: the pairs are kept in reverse.
RECURSIVE IndexMapCollectReversed(_)
IndexMapCollectReversed(p) ==
    IF p = <<>> THEN <<>>
    ELSE IndexMapInsert(IndexMapCollectReversed(Tail(p)), Head(p))

\* it.into_iter().collect::<IndexMap<K, V>>(): the pairs inserted in turn.
RECURSIVE IndexMapCollect(_)
IndexMapCollect(p) ==
    IF p = <<>> THEN <<>>
    ELSE IndexMapInsert(IndexMapCollect(SubSeq(p, 1, Len(p) - 1)), p[Len(p)])

\* FromIterator<(K, V)> for IMap
IMap_from_iter(p) == RcMap(IndexMapCollect(p))

\* The place (from 1) where a keyed lookup on map a finds key, 0 for a miss.
Locate(a, key) ==
    CASE a.variant = "Static" -> FindFirst(a.pairs, key)
      [] a.variant = "Rc"     -> EntryOf(a.pairs, key)

\* IMap::len
IMap_len(a) == Len(a.pairs)

\* IMap::iter, run to its end: every pair, in the map's order.
IMap_iter(a) == a.pairs

\* IMap::keys, run to its end.
IMap_keys(a) == [i \in 1..Len(a.pairs) |-> a.pairs[i][1]]

\* IMap::get
IMap_get(a, key) ==
    IF Locate(a, key) = 0 THEN None ELSE Some(a.pairs[Locate(a, key)][2])

\* IMap::get_key_value
IMap_get_key_value(a, key) ==
    IF Locate(a, key) = 0 THEN None ELSE Some(a.pairs[Locate(a, key)])

\* Faulty variant of IMap_get_full: the index is counted from 1.
IMap_get_full_from_one(a, key) ==
    IF Locate(a, key) = 0 THEN None
    ELSE Some(<<Locate(a, key), a.pairs[Locate(a, key)][1], a.pairs[Locate(a, key)][2]>>)

\* IMap::get_full: the index (from 0), the key and the value.
IMap_get_full(a, key) ==
    IF Locate(a, key) = 0 THEN None
    ELSE Some(<<Locate(a, key) - 1, a.pairs[Locate(a, key)][1], a.pairs[Locate(a, key)][2]>>)

\* Faulty variant of IMap_get_index: the index is taken as counted from 1.
IMap_get_index_from_one(a, index) ==
    IF index >= 1 /\ index <= Len(a.pairs) THEN Some(a.pairs[index]) ELSE None

\* IMap::get_index: the pair at an index counted from 0.
IMap_get_index(a, index) ==
    IF index < Len(a.pairs) THEN Some(a.pairs[index + 1]) ELSE None

\* IMap::get_index_of: the index, counted from 0.
IMap_get_index_of(a, key) ==
    IF Locate(a, key) = 0 THEN None ELSE Some(Locate(a, key) - 1)

\* IMap::contains_key
IMap_contains_key(a, key) ==
    CASE a.variant = "Static" -> \E i \in 1..Len(a.pairs) : a.pairs[i][1] = key
      [] a.variant = "Rc"     -> EntryOf(a.pairs, key) # 0

\* IMap::last
IMap_last(a) ==
    IF Len(a.pairs) = 0 THEN None ELSE Some(a.pairs[Len(a.pairs)])

\* PartialEq for IndexMap: the same number of entries and, for every entry
\* of one, the same value under that key in the other; order is not compared.
IndexMapEq(es, fs) ==
    /\ Len(es) = Len(fs)
    /\ \A i \in 1..Len(es) :
          EntryOf(fs, es[i][1]) # 0 /\ fs[EntryOf(fs, es[i][1])][2] = es[i][2]

\* #[derive(PartialEq)] on enum IMap: equal discriminants, then equal payloads.
IMapDerivedEq(a, b) ==
    /\ a.variant = b.variant
    /\ CASE a.variant = "Static" -> a.pairs = b.pairs
         [] a.variant = "Rc"     -> IndexMapEq(a.pairs, b.pairs)

\* What every map operation leaves alone: the arrays and all that is theirs.
ArraysUnchanged ==
    UNCHANGED <<arr, ghost, iters, heap, statics, view, src, pc, tmp, flavor, walk, strs, cow>>

\* A read of the map in slot m: it returns res and changes no map.
MapRead(name, m, arg, res, ok) ==
    /\ maps[m] # NoMap
    /\ last' = Op(name, m, arg, ok)
    /\ ret' = res
    /\ UNCHANGED maps
    /\ ArraysUnchanged

\* A new map value a in the empty slot m.
MapMake(name, m, p, a) ==
    /\ maps[m] = NoMap
    /\ maps' = [maps EXCEPT ![m] = a]
    /\ last' = Op(name, m, p, TRUE)
    /\ ret' = None
    /\ ArraysUnchanged

\* IMap::Static(p) / From<&'static [(K, V)]>, over any pair slice
MapFromStatic(m, p) == MapMake("static", m, p, StaticMap(p))

\* p.into_iter().collect::<IMap<K, V>>()
MapFromIter(m, p) == MapMake("from_iter", m, p, IMap_from_iter(p))

\* Clone for IMap: n = m.clone()
MapClone(m, n) ==
    /\ maps[m] # NoMap
    /\ MapMake("clone", n, m, maps[m])

\* The map in slot m goes out of scope.
MapDrop(m) ==
    /\ maps[m] # NoMap
    /\ maps' = [maps EXCEPT ![m] = NoMap]
    /\ last' = NoLast
    /\ ret' = None
    /\ ArraysUnchanged

MapGet(m, key) ==
    MapRead("get", m, key, IMap_get(maps[m], key), IMap_get(maps[m], key) # None)

MapGetKeyValue(m, key) ==
    MapRead("get_key_value", m, key, IMap_get_key_value(maps[m], key),
            IMap_get_key_value(maps[m], key) # None)

MapGetFull(m, key) ==
    MapRead("get_full", m, key, IMap_get_full(maps[m], key),
            IMap_get_full(maps[m], key) # None)

MapGetIndexOf(m, key) ==
    MapRead("get_index_of", m, key, IMap_get_index_of(maps[m], key),
            IMap_get_index_of(maps[m], key) # None)

MapContainsKey(m, key) ==
    MapRead("contains_key", m, key, None, IMap_contains_key(maps[m], key))

MapGetIndex(m, index) ==
    MapRead("get_index", m, index, IMap_get_index(maps[m], index),
            IMap_get_index(maps[m], index) # None)

MapLast(m) ==
    MapRead("last", m, 0, IMap_last(maps[m]), IMap_last(maps[m]) # None)

\* m == n, by the derived PartialEq
MapCompare(m, n) ==
    /\ maps[n] # NoMap
    /\ MapRead("map_eq", m, n, None, IMapDerivedEq(maps[m], maps[n]))

MapNext ==
    \/ \E m \in M, p \in PairSeqs(MaxPairs) : MapFromStatic(m, p)
    \/ \E m \in M, p \in PairSeqs(MaxPairs) : MapFromIter(m, p)
    \/ \E m \in M, n \in M : MapClone(m, n)
    \/ \E m \in M : MapDrop(m)
    \/ \E m \in M, key \in Key : MapGet(m, key)
    \/ \E m \in M, key \in Key : MapGetKeyValue(m, key)
    \/ \E m \in M, key \in Key : MapGetFull(m, key)
    \/ \E m \in M, key \in Key : MapGetIndexOf(m, key)
    \/ \E m \in M, key \in Key : MapContainsKey(m, key)
    \/ \E m \in M, index \in 0..(MaxPairs + 1) : MapGetIndex(m, index)
    \/ \E m \in M : MapLast(m)
    \/ \E m \in M, n \in M : m < n /\ MapCompare(m, n)

\* No array, no map.
MapSpec == Init /\ [][MapNext]_vars

\* ------------------------------------------ StrSpec: IString (string.rs)

\* IString::as_str, over an explicit heap.
StrIn(a, hp) ==
    CASE a.variant = "Static" -> a.text
      [] a.variant = "Rc"     -> hp[a.ref].data
      [] OTHER                -> <<>>

as_str(a) == StrIn(a, heap)

\* A plain operand of a comparison: kind is "str", "&str", "String" or
\* "&String".
RawStr(kind, t) == [variant |-> kind, text |-> t, ref |-> 0]
RawStrKinds == {"str", "&str", "String", "&String"}

\* AsRef::<str>::as_ref, for an IString and for the plain operands.
AsRefStr(x) == IF x.variant \in RawStrKinds THEN x.text ELSE as_str(x)

\* PartialEq for str: the same bytes.
StrEq(t, u) == Len(t) = Len(u) /\ \A k \in 1..Len(t) : t[k] = u[k]

\* Ord for str: lexicographic on the bytes, a proper prefix being less.
RECURSIVE StrOrd(_, _)
StrOrd(t, u) ==
    IF t = <<>> THEN (IF u = <<>> THEN "Equal" ELSE "Less")
    ELSE IF u = <<>> THEN "Greater"
    ELSE IF Head(t) < Head(u) THEN "Less"
    ELSE IF Head(t) > Head(u) THEN "Greater"
    ELSE StrOrd(Tail(t), Tail(u))

\* Faulty variant of CmpAsStr: operands of different variants are unequal,
\* as a derived comparison of the enum would have it.
CmpAsStrByVariant(fn, x, y) ==
    CASE fn = "eq"          -> x.variant = y.variant /\ StrEq(AsRefStr(x), AsRefStr(y))
      [] fn = "cmp"         -> StrOrd(AsRefStr(x), AsRefStr(y))
      [] fn = "partial_cmp" -> StrOrd(AsRefStr(x), AsRefStr(y))

\* impl_cmp_as_str!, Ord and PartialOrd for IString: $trait::$fn on the two
\* operands' as_ref(). The Ordering stands for Some(Ordering) under
\* partial_cmp, which is never None for str.
CmpAsStr(fn, x, y) ==
    CASE fn = "eq"          -> StrEq(AsRefStr(x), AsRefStr(y))
      [] fn = "cmp"         -> StrOrd(AsRefStr(x), AsRefStr(y))
      [] fn = "partial_cmp" -> StrOrd(AsRefStr(x), AsRefStr(y))

\* Hash for str, as far as the model needs it: a function of the bytes
\* alone, with collisions.
RECURSIVE StrHash(_)
StrHash(t) ==
    IF t = <<>> THEN 1
    ELSE (2 * StrHash(Tail(t)) + Head(t)) % HashBuckets

\* Faulty variant of IString_hash: the variant is hashed with the text, as a
\* derived Hash would do.
IString_hash_with_variant(a) ==
    (StrHash(as_str(a)) + (IF a.variant = "Rc" THEN 1 ELSE 0)) % HashBuckets

\* Hash for IString
IString_hash(a) == StrHash(as_str(a))

\* Borrow<str> for IString
IString_borrow(a) == as_str(a)

\* HashMap<IString, _>::get(q) for a &str q, over the keys stored: the keys
\* in the bucket of q's hash whose borrow() equals q.
HashMapGet(keys, q) ==
    {k \in keys : IString_hash(k) = StrHash(q) /\ StrEq(IString_borrow(k), q)}

\* fmt::Arguments: the literal pieces and the formatted arguments between
\* them. as_str() is Some for no argument and at most one piece.
ArgsAsStr(a) ==
    IF a.args = <<>> /\ Len(a.pieces) <= 1
    THEN Some(IF a.pieces = <<>> THEN <<>> ELSE a.pieces[1])
    ELSE None

\* args.to_string(): pieces and arguments in turn.
RECURSIVE ArgsToString(_)
ArgsToString(a) ==
    IF a.pieces = <<>> THEN <<>>
    ELSE IF a.args = <<>> THEN a.pieces[1]
    ELSE a.pieces[1] \o a.args[1]
            \o ArgsToString([pieces |-> Tail(a.pieces), args |-> Tail(a.args)])

\* The constructors: the IString made and the heap afterwards.
IString_from_static(t, hp) == [str |-> StaticStr(t), heap |-> hp]

\* Faulty variant of IString_from_string: the text is kept as a Static.
IString_from_string_static(t, hp) == [str |-> StaticStr(t), heap |-> hp]

\* From<String>: IString::Rc(Rc::from(s))
IString_from_string(t, hp) ==
    [str |-> RcStr(NewBuf(hp)), heap |-> AllocIn(hp, NewBuf(hp), t, 0)]

\* Default: Self::Static("")
IString_default(hp) == [str |-> StaticStr(<<>>), heap |-> hp]

\* From<Rc<str>>: IString::Rc(s), for the Rc<str> s on buffer b. The Rc is
\* moved into the string; no count changes.
IString_from_rc(b, hp) == [str |-> RcStr(b), heap |-> hp]

\* From<Cow<'static, str>>
IString_from_cow(c, hp) ==
    IF c.kind = "Borrowed" THEN IString_from_static(c.text, hp)
    ELSE IString_from_string(c.text, hp)

\* From<fmt::Arguments>
IString_from_args(a, hp) ==
    IF ArgsAsStr(a) # None THEN IString_from_static(ArgsAsStr(a)[1], hp)
    ELSE IString_from_string(ArgsToString(a), hp)

\* FromStr: IString::from(String::from(value))
IString_from_str(t, hp) == IString_from_string(t, hp)

\* The format arguments drawn: at most two pieces of at most one character
\* and at most one argument, an argument following each piece but the last.
ShortText == {t \in Text : Len(t) <= 1}
\* The texts the constructors are given: the short ones and one of the
\* greatest length.
SrcText == ShortText \cup {[k \in 1..MaxText |-> ((k - 1) % MaxChar) + 1]}
FmtArgs ==
    {[pieces |-> p, args |-> a] :
        p \in UNION {[1..k -> ShortText] : k \in 0..2},
        a \in UNION {[1..k -> ShortText] : k \in 0..1}}
ValidFmtArgs == {f \in FmtArgs : Len(f.args) <= Len(f.pieces) /\ Len(f.pieces) <= Len(f.args) + 1}

\* What every string operation leaves alone.
StrFrame ==
    UNCHANGED <<arr, ghost, iters, statics, view, src, pc, tmp, flavor, walk, maps>>

\* A new IString r.str in the empty slot s, made from source.
StrMake(name, s, source, r) ==
    /\ strs[s] = NoStr
    /\ strs' = [strs EXCEPT ![s] = r.str]
    /\ heap' = r.heap
    /\ last' = Op(name, s, source, TRUE)
    /\ ret' = None
    /\ UNCHANGED cow
    /\ StrFrame

\* The constructors. Those that allocate an Rc<str> need a free buffer, the
\* heap of the model being bounded; the others take none.
StrFromStatic(s, t) == StrMake("from_static", s, t, IString_from_static(t, heap))
StrFromString(s, t) ==
    /\ HasFree(heap)
    /\ StrMake("from_string", s, t, IString_from_string(t, heap))
StrFromCow(s, c) ==
    /\ c.kind = "Owned" => HasFree(heap)
    /\ StrMake("from_cow", s, c, IString_from_cow(c, heap))
StrFromArgs(s, a) ==
    /\ ArgsAsStr(a) = None => HasFree(heap)
    /\ StrMake("from_args", s, a, IString_from_args(a, heap))
StrFromStr(s, t) ==
    /\ HasFree(heap)
    /\ StrMake("from_str", s, t, IString_from_str(t, heap))
StrDefault(s) == StrMake("default", s, <<>>, IString_default(heap))

\* The strong references to buffer b that no IString holds: the Rc<str>
\* values in the hands of the code that uses the strings.
OuterRcs(b) == heap[b].strong - Cardinality({s \in S : strs[s] = RcStr(b)})

\* IString::from(rc), rc being one of the Rc<str> on buffer b held outside.
StrFromRc(s, b) ==
    /\ heap[b].state = "live"
    /\ OuterRcs(b) > 0
    /\ StrMake("from_rc", s, b, IString_from_rc(b, heap))

\* Rc::<str>::from(t), of which w Weak references are taken: a new
\* allocation held by one Rc<str> outside any IString.
NewOuterRc(t, w) ==
    /\ HasFree(heap)
    /\ heap' = AllocIn(heap, NewBuf(heap), t, w)
    /\ last' = NoLast
    /\ ret' = None
    /\ UNCHANGED <<strs, cow>>
    /\ StrFrame

\* Rc::clone of an Rc<str> on buffer b, held outside or inside an IString;
\* the clone is held outside.
CloneOuterRc(b) ==
    /\ heap[b].state = "live"
    /\ OuterRcs(b) < MaxOuter
    /\ heap' = IncStrong(heap, b)
    /\ last' = NoLast
    /\ ret' = None
    /\ UNCHANGED <<strs, cow>>
    /\ StrFrame

\* One of the Rc<str> kept outside is dropped.
DropOuterRc(b) ==
    /\ heap[b].state = "live"
    /\ OuterRcs(b) > 0
    /\ heap' = DecStrong(heap, b)
    /\ last' = NoLast
    /\ ret' = None
    /\ UNCHANGED <<strs, cow>>
    /\ StrFrame

\* Clone for IString (derived), and From<&IString>: u = s.clone()
StrClone(s, u) ==
    /\ strs[s] # NoStr
    /\ strs[u] = NoStr
    /\ strs' = [strs EXCEPT ![u] = strs[s]]
    /\ heap' = CloneHeap(heap, strs[s])
    /\ last' = NoLast
    /\ ret' = None
    /\ UNCHANGED cow
    /\ StrFrame

\* The IString in slot s goes out of scope; no Cow may still borrow it.
StrDrop(s) ==
    /\ strs[s] # NoStr
    /\ cow[s] = None
    /\ strs' = [strs EXCEPT ![s] = NoStr]
    /\ heap' = DropArr(heap, strs[s])
    /\ last' = NoLast
    /\ ret' = None
    /\ UNCHANGED cow
    /\ StrFrame

\* Faulty variant of AsCow: the Cow keeps a clone of the string alive.
AsCowClones(s) ==
    /\ strs[s] # NoStr
    /\ cow[s] = None
    /\ cow' = [cow EXCEPT ![s] = Some(as_str(strs[s]))]
    /\ heap' = CloneHeap(heap, strs[s])
    /\ last' = Op("as_cow", s, 0, TRUE)
    /\ ret' = None
    /\ UNCHANGED strs
    /\ StrFrame

\* IString::as_cow: Cow::Borrowed(self.as_str())
AsCow(s) ==
    /\ strs[s] # NoStr
    /\ cow[s] = None
    /\ cow' = [cow EXCEPT ![s] = Some(as_str(strs[s]))]
    /\ last' = Op("as_cow", s, 0, TRUE)
    /\ ret' = None
    /\ UNCHANGED <<strs, heap>>
    /\ StrFrame

\* The Cow borrowed from slot s goes out of scope.
DropCow(s) ==
    /\ cow[s] # None
    /\ cow' = [cow EXCEPT ![s] = None]
    /\ last' = NoLast
    /\ ret' = None
    /\ UNCHANGED <<strs, heap>>
    /\ StrFrame

\* x.fn(&y) for two operands, each an IString in a slot or a plain value
StrCompare(fn, x, y) ==
    /\ last' = Op(fn, 0, [x |-> x, y |-> y], TRUE)
    /\ ret' = Some(CmpAsStr(fn, x, y))
    /\ UNCHANGED <<strs, heap, cow>>
    /\ StrFrame

\* The hash of the IString in slot s
StrHashOf(s) ==
    /\ strs[s] # NoStr
    /\ last' = Op("hash", s, 0, TRUE)
    /\ ret' = Some(IString_hash(strs[s]))
    /\ UNCHANGED <<strs, heap, cow>>
    /\ StrFrame

\* map.get(q) on a HashMap whose keys are the live IStrings
HashLookup(q) ==
    /\ last' = Op("hash_get", 0, q, HashMapGet({strs[s] : s \in {u \in S : strs[u] # NoStr}}, q) # {})
    /\ ret' = None
    /\ UNCHANGED <<strs, heap, cow>>
    /\ StrFrame

LiveStrs == {strs[s] : s \in {u \in S : strs[u] # NoStr}}
RawStrs == {RawStr(k, t) : k \in RawStrKinds, t \in Text}

StrNext ==
    \/ \E s \in S, t \in SrcText : StrFromStatic(s, t)
    \/ \E s \in S, t \in SrcText : StrFromString(s, t)
    \/ \E s \in S, t \in SrcText, k \in {"Borrowed", "Owned"} :
          StrFromCow(s, [kind |-> k, text |-> t])
    \/ \E s \in S, a \in ValidFmtArgs : StrFromArgs(s, a)
    \/ \E s \in S, t \in SrcText : StrFromStr(s, t)
    \/ \E s \in S, b \in B : StrFromRc(s, b)
    \/ \E t \in SrcText, w \in 0..MaxWeak : NewOuterRc(t, w)
    \/ \E b \in B : CloneOuterRc(b)
    \/ \E s \in S : StrDefault(s)
    \/ \E b \in B : DropOuterRc(b)
    \/ \E b \in B : DropWeak(b)
    \/ \E s \in S, u \in S : StrClone(s, u)
    \/ \E s \in S : StrDrop(s)
    \/ \E s \in S : AsCow(s)
    \/ \E s \in S : DropCow(s)

\* No array, no map, no string.
StrSpec == Init /\ [][StrNext]_vars

\* ------------- CmpSpec: the comparisons and hashing of IString (string.rs)

\* Two strings, each of either variant and any text; an Rc string in slot
\* s has its text in buffer s.
CmpInit ==
    /\ arr = [h \in H |-> NoArr]
    /\ ghost = [h \in H |-> NoGhost]
    /\ iters = [i \in I |-> NoIter]
    /\ statics = StaticTable
    /\ view = [h \in H |-> NoView]
    /\ last = NoLast
    /\ src = NoSrc
    /\ pc = [h \in H |-> "idle"]
    /\ tmp = [h \in H |-> 0]
    /\ flavor = "unsync"
    /\ ret = None
    /\ walk = [i \in I |-> NoWalk]
    /\ maps = [m \in M |-> NoMap]
    /\ cow = [s \in S |-> None]
    /\ \E t \in [1..2 -> Text], v \in [1..2 -> {"Static", "Rc"}] :
          /\ strs = [s \in S |-> IF s > 2 THEN NoStr
                                  ELSE IF v[s] = "Static" THEN StaticStr(t[s]) ELSE RcStr(s)]
          /\ heap = [b \in B |-> IF b <= 2 /\ v[b] = "Rc"
                                  THEN [state |-> "live", data |-> t[b],
                                        strong |-> 1, weak |-> 0]
                                  ELSE FreeBuf]

CmpNext ==
    \/ \E fn \in {"eq", "cmp", "partial_cmp"}, x \in LiveStrs, y \in LiveStrs :
          StrCompare(fn, x, y)
    \/ \E fn \in {"eq", "partial_cmp"}, x \in LiveStrs, y \in RawStrs : StrCompare(fn, x, y)
    \/ \E fn \in {"eq", "partial_cmp"}, x \in RawStrs, y \in LiveStrs : StrCompare(fn, x, y)
    \/ \E s \in S : StrHashOf(s)
    \/ \E q \in Text : HashLookup(q)

CmpSpec == CmpInit /\ [][CmpNext]_vars

\* ------------- NameSpec: lookups by name in maps keyed by text (map.rs)

\* A key of a map keyed by text: an IString, or a &'static str.
\* Borrow<str> and Hash of the key, and the key's own PartialEq.
KeyBorrow(k) == IF k.variant \in RawStrKinds THEN k.text ELSE IString_borrow(k)
KeyHash(k) == IF k.variant \in RawStrKinds THEN StrHash(k.text) ELSE IString_hash(k)
KeyEq(k, j) == CmpAsStr("eq", k, j)

\* IndexMap::get_index_of(q) for a borrowed str q: the place (from 1) of the
\* entry in q's bucket whose key borrows as q, 0 if there is none.
EntryOfStr(es, q) ==
    IF \E i \in 1..Len(es) : KeyHash(es[i][1]) = StrHash(q) /\ StrEq(KeyBorrow(es[i][1]), q)
    THEN CHOOSE i \in 1..Len(es) :
            KeyHash(es[i][1]) = StrHash(q) /\ StrEq(KeyBorrow(es[i][1]), q)
    ELSE 0

\* IndexMap::get_index_of(&key) for a key of the map's own type.
EntryOfKey(es, key) ==
    IF \E i \in 1..Len(es) : KeyHash(es[i][1]) = KeyHash(key) /\ KeyEq(es[i][1], key)
    THEN CHOOSE i \in 1..Len(es) :
            KeyHash(es[i][1]) = KeyHash(key) /\ KeyEq(es[i][1], key)
    ELSE 0

\* The first of the places js, 0 if there is none: what a.iter().find_map(..)
\* stops at, js being the places whose key the closure accepts.
FirstIn(js) ==
    IF js = {} THEN 0 ELSE CHOOSE i \in js : \A j \in js : i <= j

\* The value at place i of the pairs, None for place 0.
ValueAt(p, i) == IF i = 0 THEN None ELSE Some(p[i][2])

\* IMap::get::<str>(q), for a map keyed by IString or by &'static str.
IMap_get_str(a, q) ==
    LET hits == {i \in 1..Len(a.pairs) : StrEq(KeyBorrow(a.pairs[i][1]), q)}
    IN CASE a.variant = "Static" -> ValueAt(a.pairs, FirstIn(hits))
         [] a.variant = "Rc"     -> ValueAt(a.pairs, EntryOfStr(a.pairs, q))

\* Faulty variant of get_static_str_IString: the key made from the name is
\* compared with the stored keys variant and all.
get_static_str_IString_by_variant(a, name) ==
    LET key == IString_from_static(name, heap).str
        hits == {i \in 1..Len(a.pairs) : CmpAsStrByVariant("eq", a.pairs[i][1], key)}
    IN CASE a.variant = "Static" -> ValueAt(a.pairs, FirstIn(hits))
         [] a.variant = "Rc"     -> ValueAt(a.pairs, EntryOfKey(a.pairs, key))

\* IMap<IString, V>::get_static_str
get_static_str_IString(a, name) ==
    LET key == IString_from_static(name, heap).str
        hits == {i \in 1..Len(a.pairs) : KeyEq(a.pairs[i][1], key)}
    IN CASE a.variant = "Static" -> ValueAt(a.pairs, FirstIn(hits))
         [] a.variant = "Rc"     -> ValueAt(a.pairs, EntryOfKey(a.pairs, key))

\* IMap<&'static str, V>::get_static_str
get_static_str_str(a, name) ==
    LET hits == {i \in 1..Len(a.pairs) : StrEq(a.pairs[i][1].text, name)}
    IN CASE a.variant = "Static" -> ValueAt(a.pairs, FirstIn(hits))
         [] a.variant = "Rc"     -> ValueAt(a.pairs, EntryOfStr(a.pairs, name))

\* The key types: the map's keys are all of type kt. An empty map can be of
\* either.
KeyTypes == {"IString", "&str"}
KeyedBy(a, kt) ==
    \A i \in 1..Len(a.pairs) : (a.pairs[i][1].variant \in RawStrKinds) <=> (kt = "&str")

\* get_static_str of the impl for key type kt.
get_static_str(a, kt, name) ==
    IF kt = "IString" THEN get_static_str_IString(a, name) ELSE get_static_str_str(a, name)

\* imap_deconstruct!(let { names.. } = a): each name bound, in turn, to
\* a.get_static_str(stringify!(name)).
imap_deconstruct(a, kt, names) ==
    [i \in 1..Len(names) |-> get_static_str(a, kt, names[i])]

\* m.get(name)
NameGet(m, kt, name) ==
    /\ KeyedBy(maps[m], kt)
    /\ MapRead("get", m, [kt |-> kt, name |-> name], IMap_get_str(maps[m], name),
               IMap_get_str(maps[m], name) # None)

\* m.get_static_str(name)
NameGetStaticStr(m, kt, name) ==
    /\ KeyedBy(maps[m], kt)
    /\ MapRead("get_static_str", m, [kt |-> kt, name |-> name],
               get_static_str(maps[m], kt, name),
               get_static_str(maps[m], kt, name) # None)

\* imap_deconstruct!(let { names.. } = m)
NameDeconstruct(m, kt, names) ==
    /\ KeyedBy(maps[m], kt)
    /\ MapRead("imap_deconstruct", m, [kt |-> kt, names |-> names],
               imap_deconstruct(maps[m], kt, names), TRUE)

\* The keys a map can have when buffer 1 holds an Rc<str>.
NameKeys(kt) ==
    IF kt = "&str" THEN {RawStr("&str", t) : t \in Text}
    ELSE {StaticStr(t) : t \in Text} \cup {RcStr(1)}

\* A pair list is what an IndexMap can hold: no two keys with one text.
DistinctNames(p, hp) ==
    \A i \in 1..Len(p), j \in 1..Len(p) :
       i # j => (IF p[i][1].variant \in RawStrKinds THEN p[i][1].text ELSE StrIn(p[i][1], hp))
                # (IF p[j][1].variant \in RawStrKinds THEN p[j][1].text ELSE StrIn(p[j][1], hp))

\* One map in slot 1, keyed by IString or by &'static str, of either
\* variant; buffer 1 holds the text of the keys that are Rc strings. A
\* Static map is any pair slice; an Rc map has distinct keys.
NameInit ==
    /\ arr = [h \in H |-> NoArr]
    /\ ghost = [h \in H |-> NoGhost]
    /\ iters = [i \in I |-> NoIter]
    /\ statics = StaticTable
    /\ view = [h \in H |-> NoView]
    /\ last = NoLast
    /\ src = NoSrc
    /\ pc = [h \in H |-> "idle"]
    /\ tmp = [h \in H |-> 0]
    /\ flavor = "unsync"
    /\ ret = None
    /\ walk = [i \in I |-> NoWalk]
    /\ strs = [s \in S |-> NoStr]
    /\ cow = [s \in S |-> None]
    /\ \E kt \in KeyTypes, v \in {"Static", "Rc"}, t \in Text :
          \E p \in UNION {[1..k -> NameKeys(kt) \X Val] : k \in 0..MaxPairs} :
             LET holders == Cardinality({i \in 1..Len(p) : p[i][1] = RcStr(1)})
                 hp == [b \in B |-> IF b = 1 /\ holders > 0
                                     THEN [state |-> "live", data |-> t,
                                           strong |-> holders, weak |-> 0]
                                     ELSE FreeBuf]
             IN /\ holders = 0 => t = <<>>
                /\ v = "Rc" => DistinctNames(p, hp)
                /\ heap = hp
                /\ maps = [m \in M |-> IF m = 1
                                        THEN (IF v = "Static" THEN StaticMap(p) ELSE RcMap(p))
                                        ELSE NoMap]

NameNext ==
    \/ \E kt \in KeyTypes, name \in Text : NameGet(1, kt, name)
    \/ \E kt \in KeyTypes, name \in Text : NameGetStaticStr(1, kt, name)
    \/ \E kt \in KeyTypes, names \in [1..2 -> Text] : NameDeconstruct(1, kt, names)

NameSpec == NameInit /\ [][NameNext]_vars

\* ================================================ claims under NameSpec

\* The texts of the keys of map a.
KeyTexts(a) == {KeyBorrow(a.pairs[i][1]) : i \in 1..Len(a.pairs)}

\* The values map a pairs with a key whose text is name.
ValuesFor(a, name) ==
    {a.pairs[i][2] : i \in {j \in 1..Len(a.pairs) : KeyBorrow(a.pairs[j][1]) = name}}

\* C21: get_static_str(name) returns exactly what get(name) returns, for a
\* map keyed by IString or by &'static str, of either variant, and for a
\* name present or absent; and imap_deconstruct! binds each identifier to
\* Some(value) when the map has a key spelled like it, to None otherwise.
C21_GetStaticStrIsGet ==
    LET a == maps[last.h]
    IN /\ last.op = "get_static_str" =>
             /\ ret = IMap_get_str(a, last.g.name)
             /\ (ret # None) <=> (last.g.name \in KeyTexts(a))
       /\ last.op = "imap_deconstruct" =>
             \A i \in 1..Len(last.g.names) :
                IF last.g.names[i] \in KeyTexts(a)
                THEN /\ ret[i] # None
                     /\ ret[i][1] \in ValuesFor(a, last.g.names[i])
                     /\ ret[i] = IMap_get_str(a, last.g.names[i])
                ELSE ret[i] = None

\* get_static_str has just found, in an Rc map, the value of a key that is
\* an Rc string, next to a Static key that it passed over.
C21_Witness ==
    /\ last.op = "get_static_str"
    /\ maps[last.h].variant = "Rc"
    /\ Len(maps[last.h].pairs) = 2
    /\ maps[last.h].pairs[1][1].variant = "Static"
    /\ maps[last.h].pairs[2][1].variant = "Rc"
    /\ Len(last.g.name) = MaxText
    /\ ret = Some(maps[last.h].pairs[2][2])

\* ================================================ claims under ReadSpec

\* C11: double-ended iteration. With n the length of the array when iter()
\* was called: the k-th next() that returns an element returns element k - 1
\* and the k-th such next_back() returns element n - k; a call returns an
\* element exactly when fewer than n had been returned before it, and None
\* from either end once n have been.
C11_DoubleEnded ==
    [][\A i \in I :
          (last'.h = i /\ last'.op \in {"next", "next_back"}) =>
             LET n == Len(walk[i].orig)
                 done == walk[i].fronts + walk[i].backs
             IN /\ (done < n) <=> (ret' # None)
                /\ (done >= n) => (ret' = None /\ walk'[i] = walk[i])
                /\ (ret' # None /\ last'.op = "next") =>
                      /\ walk'[i].fronts = walk[i].fronts + 1
                      /\ ret' = Some(walk[i].orig[walk'[i].fronts])
                /\ (ret' # None /\ last'.op = "next_back") =>
                      /\ walk'[i].backs = walk[i].backs + 1
                      /\ ret' = Some(walk[i].orig[n - walk'[i].backs + 1])
      ]_vars

\* An iterator over a four-element array has given its first and its last
\* element and is asked for more.
C11_Witness ==
    \E i \in I :
       /\ Len(walk[i].orig) = MaxWalk
       /\ walk[i].fronts >= 1
       /\ walk[i].backs >= 2
       /\ last.op = "next" /\ last.h = i /\ ret # None

\* C14: get(index) returns Some(the element at index) when index < len()
\* and None when index >= len(), whatever the variant; a Single has length
\* 1, so it answers index 0 only.
C14_Get ==
    last.op = "get" =>
       LET a == arr[last.h]
           index == last.g
       IN /\ index < len(a) => ret = Some(as_slice(a)[index + 1])
          /\ index >= len(a) => ret = None
          /\ a.variant = "Single" => (ret # None <=> index = 0)

\* get has just returned the last element of a four-element array.
C14_Witness ==
    /\ last.op = "get"
    /\ len(arr[last.h]) = MaxWalk
    /\ last.g = MaxWalk - 1
    /\ ret # None

\* C15: an array compared with a raw slice, a reference to one, a fixed-size
\* array or a reference to one is equal to it exactly when both have the
\* same length and the same element at every index, whichever variant holds
\* the array's elements.
C15_EqRawByContent ==
    last.op \in RawKinds =>
       LET mine == as_slice(arr[last.h])
           other == last.g
       IN last.ok <=>
             /\ Len(mine) = Len(other)
             /\ \A k \in 1..Len(mine) : mine[k] = other[k]

\* A Single array has just compared equal to a reference to a fixed-size
\* array.
C15_Witness ==
    /\ last.op = "eq_array_ref"
    /\ arr[last.h].variant = "Single"
    /\ last.ok

\* ================================================ claims under SnapSpec

\* C27: an Iter is a snapshot. It holds its own clone of the array, whose
\* elements stay those the array held when iter() was called whatever is
\* done to the source array afterwards; its bounds stay within
\* 0 <= left <= right <= the snapshot's length; and each element it yields,
\* from either end, is the snapshot's element at that place.
C27_IterSnapshot ==
    \A i \in I :
       iters[i] # NoIter =>
          /\ as_slice(iters[i].array) = walk[i].orig
          /\ 0 <= iters[i].left
          /\ iters[i].left <= iters[i].right
          /\ iters[i].right <= Len(walk[i].orig)
          /\ (last.h = i /\ last.op = "next" /\ last.ok) =>
                ret = Some(walk[i].orig[iters[i].left])
          /\ (last.h = i /\ last.op = "next_back" /\ last.ok) =>
                ret = Some(walk[i].orig[iters[i].right + 1])

\* The source array was written through make_mut after iter() and differs
\* from the snapshot, and the iterator has just yielded from the back an
\* element the source no longer holds at that place.
C27_Witness ==
    \E i \in I, h \in H :
       /\ iters[i] # NoIter
       /\ arr[h] # NoArr
       /\ ghost[h].wrote
       /\ Len(as_slice(arr[h])) = Len(walk[i].orig)
       /\ last.h = i /\ last.op = "next_back" /\ last.ok
       /\ as_slice(arr[h])[iters[i].right + 1] # walk[i].orig[iters[i].right + 1]
       /\ walk[i].fronts >= 1

\* ================================================ claims under EditSpec

\* C16: structural edits rebuild the sequence as head ++ edit ++ tail. After
\* insert_many(i, xs) with i <= len the sequence has the old elements below
\* i in place, then xs, then the old elements from i on; after remove_range
\* over [i, j) it has the old elements below i and then those from j on.
C16_HeadEditTail ==
    [][(last'.op \in {"insert_many", "remove_range"} /\ last'.ok) =>
          LET old == as_slice(arr[last'.h])
              new == SliceIn(arr'[last'.h], heap', statics')
              i == last'.g[1]
          IN IF last'.op = "insert_many"
             THEN LET xs == last'.g[2]
                  IN /\ Len(new) = Len(old) + Len(xs)
                     /\ \A k \in 1..Len(new) :
                           new[k] = IF k <= i THEN old[k]
                                    ELSE IF k <= i + Len(xs) THEN xs[k - i]
                                    ELSE old[k - Len(xs)]
             ELSE LET j == last'.g[2]
                  IN /\ Len(new) = Len(old) - (j - i)
                     /\ \A k \in 1..Len(new) :
                           new[k] = IF k <= i THEN old[k] ELSE old[k + (j - i)]
      ]_vars

\* Two elements have just been inserted in the middle of a two-element
\* sequence.
C16_Witness ==
    /\ last.op = "insert_many"
    /\ last.ok
    /\ last.g[1] = 1
    /\ Len(last.g[2]) = MaxEdit
    /\ Len(as_slice(arr[last.h])) = MaxEdit + 2

\* ================================================= claims under MapSpec

\* The keys of pair list p are pairwise distinct.
DistinctKeys(p) == \A i, j \in 1..Len(p) : p[i][1] = p[j][1] => i = j

\* C17: order and indexed lookup. The map collected from a list of pairs
\* with distinct keys iterates over exactly those pairs in the order they
\* were supplied, get_index(i) is the i-th of them for every i < len(), and
\* get(k) is the value supplied with k.
C17_OrderAndIndex ==
    (last.op = "from_iter" /\ DistinctKeys(last.g)) =>
       LET a == maps[last.h]
           p == last.g
       IN /\ IMap_iter(a) = p
          /\ IMap_len(a) = Len(p)
          /\ \A i \in 0..(Len(p) - 1) : IMap_get_index(a, i) = Some(p[i + 1])
          /\ \A i \in 1..Len(p) : IMap_get(a, p[i][1]) = Some(p[i][2])

\* A list of two pairs whose keys are not in increasing order has just been
\* collected.
C17_Witness ==
    /\ last.op = "from_iter"
    /\ DistinctKeys(last.g)
    /\ Len(last.g) = 2
    /\ last.g[1][1] > last.g[2][1]
    /\ IMap_get_index(maps[last.h], 1) = Some(last.g[2])

\* The lookups by key, and those that return an Option.
KeyedReads == {"get", "get_key_value", "get_full", "get_index_of", "contains_key"}
MapReads == KeyedReads \cup {"get_index", "last", "map_eq"}

\* C18: a lookup that misses reports absence. For a key the map does not
\* hold, get, get_key_value, get_full and get_index_of return None and
\* contains_key returns false; get_index(i) returns None for i >= len();
\* last() returns None on an empty map; for a Static and for an Rc map, and
\* no read changes any map.
C18_MissIsAbsence ==
    [][last'.op \in MapReads =>
          LET a == maps[last'.h]
              absent == \A i \in 1..Len(a.pairs) : a.pairs[i][1] # last'.g
          IN /\ maps' = maps
             /\ (last'.op \in KeyedReads /\ absent) => (ret' = None /\ ~last'.ok)
             /\ (last'.op = "get_index" /\ last'.g >= IMap_len(a)) => ret' = None
             /\ (last'.op = "last" /\ IMap_len(a) = 0) => ret' = None
      ]_vars

\* get_full has just missed on a Static map that holds a pair.
C18_Witness ==
    /\ last.op = "get_full"
    /\ maps[last.h].variant = "Static"
    /\ Len(maps[last.h].pairs) >= 1
    /\ \A i \in 1..Len(maps[last.h].pairs) : maps[last.h].pairs[i][1] # last.g
    /\ ret = None

\* C19: equality of maps does not depend on the representation. A Static
\* map and an Rc map that hold the same pairs in the same order compare
\* equal with ==.
C19_MapEqByContent ==
    (/\ last.op = "map_eq"
     /\ maps[last.h].variant # maps[last.g].variant
     /\ IMap_iter(maps[last.h]) = IMap_iter(maps[last.g])) => last.ok

\* C20: keys are unique. In every map value that can be made, no key
\* appears twice, so len() is the number of distinct keys and keys() never
\* yields a key twice.
C20_KeysUnique ==
    \A m \in M :
       maps[m] # NoMap =>
          /\ DistinctKeys(IMap_iter(maps[m]))
          /\ IMap_len(maps[m]) = Cardinality({IMap_keys(maps[m])[i] : i \in 1..IMap_len(maps[m])})

\* C28: the lookups agree. On every map, of either variant, and for every
\* key k: contains_key(k) exactly when get(k) is Some; get_full(k) is
\* Some((i, k', v)) exactly when get_index_of(k) is Some(i),
\* get_key_value(k) is Some((k', v)) and get(k) is Some(v), and then k' is k
\* and get_index(i) is Some((k', v)); and last() is get_index(len() - 1) on
\* a map that is not empty.
C28_LookupsAgree ==
    \A m \in M :
       maps[m] # NoMap =>
          LET a == maps[m]
          IN /\ \A k \in Key :
                   /\ IMap_contains_key(a, k) <=> IMap_get(a, k) # None
                   /\ IMap_get_full(a, k) = None <=> IMap_get(a, k) = None
                   /\ IMap_get_full(a, k) = None <=> IMap_get_index_of(a, k) = None
                   /\ IMap_get_full(a, k) = None <=> IMap_get_key_value(a, k) = None
                   /\ IMap_get_full(a, k) # None =>
                         LET f == IMap_get_full(a, k)[1]
                         IN /\ IMap_get_index_of(a, k) = Some(f[1])
                            /\ IMap_get_key_value(a, k) = Some(<<f[2], f[3]>>)
                            /\ IMap_get(a, k) = Some(f[3])
                            /\ f[2] = k
                            /\ IMap_get_index(a, f[1]) = Some(<<f[2], f[3]>>)
             /\ IMap_len(a) > 0 => IMap_last(a) = IMap_get_index(a, IMap_len(a) - 1)

\* get_full has just found, at index 0, a key that a Static map lists twice.
C28_Witness ==
    /\ last.op = "get_full"
    /\ maps[last.h].variant = "Static"
    /\ ~DistinctKeys(maps[last.h].pairs)
    /\ ret # None
    /\ ret[1][1] = 0

\* C29: Static and Rc maps read alike. For every pair slice p, the map
\* IMap::Static(p) and the map collected from p's pairs have the same len(),
\* the same iter() sequence and the same get(k), get_index_of(k) and
\* contains_key(k) for every key k, also when p lists a key more than once.
C29_StaticLikeCollected ==
    last.op = "static" =>
       LET a == maps[last.h]
           b == IMap_from_iter(last.g)
       IN /\ IMap_len(a) = IMap_len(b)
          /\ IMap_iter(a) = IMap_iter(b)
          /\ \A k \in Key :
                /\ IMap_get(a, k) = IMap_get(b, k)
                /\ IMap_get_index_of(a, k) = IMap_get_index_of(b, k)
                /\ IMap_contains_key(a, k) <=> IMap_contains_key(b, k)

\* ================================================= claims under StrSpec

\* The text fmt::Arguments f formats to, for at most one argument.
FmtText(f) ==
    IF f.pieces = <<>> THEN <<>>
    ELSE IF f.args = <<>> THEN f.pieces[1]
    ELSE IF Len(f.pieces) = 1 THEN f.pieces[1] \o f.args[1]
    ELSE f.pieces[1] \o f.args[1] \o f.pieces[2]

\* C24: construction picks the variant from the source and keeps the text.
\* From<&'static str> and From<Cow::Borrowed> give Static; From<String>,
\* From<Cow::Owned> and FromStr give Rc; From<fmt::Arguments> gives Static
\* when nothing is interpolated and Rc otherwise; and as_str() of the result
\* is the source's text.
C24_Construction ==
    LET a == strs[last.h]
        g == last.g
    IN /\ last.op = "from_static" => a.variant = "Static" /\ as_str(a) = g
       /\ last.op = "from_string" => a.variant = "Rc" /\ as_str(a) = g
       /\ last.op = "from_str" => a.variant = "Rc" /\ as_str(a) = g
       /\ last.op = "from_cow" =>
             /\ a.variant = (IF g.kind = "Borrowed" THEN "Static" ELSE "Rc")
             /\ as_str(a) = g.text
       /\ last.op = "from_args" =>
             /\ a.variant = (IF g.args = <<>> THEN "Static" ELSE "Rc")
             /\ as_str(a) = FmtText(g)

\* An IString has just been made from format arguments with a piece on
\* either side of an interpolated argument.
C24_Witness ==
    /\ last.op = "from_args"
    /\ Len(last.g.pieces) = 2
    /\ Len(last.g.args) = 1
    /\ Len(as_str(strs[last.h])) = 3
    /\ strs[last.h].variant = "Rc"

\* C25: as_cow does not clone. The Cow it returns borrows the text of
\* as_str() and the string's buffer stays alive under it; taking the Cow and
\* letting it go change no string and no buffer, so the strong count is what
\* it was before the call, while the Cow is alive and after.
C25_AsCowBorrows ==
    /\ [](\A s \in S :
            cow[s] # None =>
               /\ cow[s] = Some(as_str(strs[s]))
               /\ (strs[s].variant = "Rc" =>
                     (/\ heap[strs[s].ref].state = "live"
                      /\ heap[strs[s].ref].strong >= 1)))
    /\ [][/\ (last'.op = "as_cow" =>
                cow'[last'.h] = Some(as_str(strs[last'.h])))
           /\ ((last'.op = "as_cow" \/ cow' # cow) =>
                (heap' = heap /\ strs' = strs))]_vars

\* A Cow borrowed from an Rc string is alive while the string, the only
\* IString on its buffer, and an Rc<str> kept outside hold the buffer.
C25_Witness ==
    \E s \in S :
       /\ cow[s] # None
       /\ strs[s].variant = "Rc"
       /\ heap[strs[s].ref].strong = 2
       /\ OuterRcs(strs[s].ref) = 1
       /\ Len(cow[s][1]) = MaxText

\* ================================================= claims under CmpSpec

\* C23: hashing and Borrow<str> agree with equality. Two IStrings that
\* compare equal, of whatever variants, have the same hash, which is the
\* hash of their as_str(); so a hash map keyed by IString, looked up by a
\* &str, finds an entry exactly when a key has those characters.
C23_HashAgreesWithEq ==
    /\ \A a \in LiveStrs, b \in LiveStrs :
          CmpAsStr("eq", a, b) => IString_hash(a) = IString_hash(b)
    /\ \A a \in LiveStrs : IString_hash(a) = StrHash(as_str(a))
    /\ last.op = "hash" => ret = Some(StrHash(as_str(strs[last.h])))
    /\ last.op = "hash_get" =>
          (last.ok <=> \E a \in LiveStrs : as_str(a) = last.g)

\* A lookup by &str has just found a key that is stored as an Rc string
\* only, while a Static string with another text is a key too.
C23_Witness ==
    /\ last.op = "hash_get"
    /\ last.ok
    /\ Len(last.g) = MaxText
    /\ \A a \in LiveStrs : as_str(a) = last.g => a.variant = "Rc"
    /\ \E a \in LiveStrs : a.variant = "Static"

\* The order of two texts, said without recursion: t is less than u when
\* they agree up to some place where t has ended or has the smaller byte.
TextLess(t, u) ==
    \E k \in 1..Len(u) :
       /\ k <= Len(t) + 1
       /\ \A j \in 1..(k - 1) : t[j] = u[j]
       /\ k = Len(t) + 1 \/ t[k] < u[k]

\* C22: every comparison overload of IString gives the result of comparing
\* the texts. For two IStrings of any variants, ==, cmp and partial_cmp are
\* those of their as_str(); against a str, &str, String or &String, on
\* either side, == and partial_cmp are those of the same contents.
C22_CompareAsStr ==
    last.op \in {"eq", "cmp", "partial_cmp"} =>
       LET t == AsRefStr(last.g.x)
           u == AsRefStr(last.g.y)
       IN IF last.op = "eq"
          THEN ret = Some(t = u)
          ELSE ret = Some(IF t = u THEN "Equal"
                          ELSE IF TextLess(t, u) THEN "Less" ELSE "Greater")

\* A Static string has just compared equal to an Rc string.
C22_Witness ==
    /\ last.op = "eq"
    /\ last.g.x.variant = "Static"
    /\ last.g.y.variant = "Rc"
    /\ Len(AsRefStr(last.g.x)) = MaxText
    /\ ret = Some(TRUE)
====
